---- MODULE Spec2Model ----
(***************************************************************************)
(* FunCallArchitect: the request handler (package handler) and the         *)
(* orchestrator (package execution) as a state machine.                    *)
(*                                                                         *)
(* A top-level call of a plan is a task; a task owns a stack of            *)
(* executeFunc activations (frames), the innermost first.  The executor of *)
(* a call runs in a goroutine of its own (frame field g) and hands its     *)
(* outcome over a one-slot channel (frame field chan).                     *)
(***************************************************************************)
EXTENDS Integers, Sequences, FiniteSets, TLC

\* ------------------------------------------------------------------ bounds
MaxPlan == 2      \* top-level calls in a plan
MaxDepth == 1     \* nesting depth of a planned call
MaxRuns == 2      \* calls of Execute on one orchestrator
MaxRequests == 1  \* calls of ProcessUserRequest on one handler
MaxFunctions == 2 \* functions of a ToolSet
MaxResults == 4   \* top-level results given to Format

VARIABLES
    Functions,             \* Orchestrator.Functions: name -> behaviour of the registered executor
    Memo,                  \* Orchestrator.Memo: fingerprint -> FuncResult
    EnableConcurrentExec,  \* Orchestrator.EnableConcurrentExec
    functions,             \* the plan Execute was called with
    execPc,                \* "idle" | "running": an Execute call is in progress
    runs,                  \* number of Execute calls started
    tasks,                 \* per top-level call: [st, stack, err]
    functionsExecution,    \* the result slots of executeSeq / executeConcurrent
    groupErr,              \* errgroup: the first error returned by a task
    groupCancelled,        \* errgroup: the derived context is cancelled
    leaked,                \* running executors whose call was given up (bag of [Name, Args])
    rets,                  \* what each finished Execute returned
    invoked,               \* executor invocations of the current Execute (bag of [Name, Args])
    lastRet,               \* the latest return of executeFunc
    hpc,                   \* ProcessUserRequest: "off" | "idle" | "validate" | "execute" | "done"
    requests,              \* number of ProcessUserRequest calls started
    completion,            \* the planning LLM's reply
    funcCalls,             \* the parsed plan
    vi,                    \* evaluateFuncCallsConsistency: the entry the loop is at
    validated,             \* evaluateFuncCallsConsistency: its result slice
    verdicts,              \* the validation LLM's reply for each entry evaluated
    hret,                  \* what ProcessUserRequest returned
    stages,                \* the stages ProcessUserRequest has entered, in order
    input,                 \* the argument a function of the parser or of package tools is called with
    output                 \* what that function returned

handlerVars == <<hpc, requests, completion, funcCalls, vi, validated, verdicts, hret, stages>>
pureVars == <<input, output>>
orchestratorVars == <<Functions, Memo, EnableConcurrentExec, execPc, runs, tasks,
                      functionsExecution, groupErr, groupCancelled, leaked, rets, invoked, lastRet>>
vars == <<Functions, Memo, EnableConcurrentExec, functions, execPc, runs, tasks,
          functionsExecution, groupErr, groupCancelled, leaked, rets, invoked, lastRet,
          hpc, requests, completion, funcCalls, vi, validated, verdicts, hret, stages,
          input, output>>

\* ------------------------------------------------------------------ values
Nil == [t |-> "nil"]

\* decoded JSON: string, number, null, object (m: key -> value), array (a)
Str(s) == [t |-> "str", s |-> s]
Num(n) == [t |-> "num", n |-> n]
Null == [t |-> "null"]
Obj(m) == [t |-> "obj", m |-> m]
Arr(a) == [t |-> "arr", a |-> a]
\* bytes that are not JSON
Garbage == [t |-> "garbage"]

\* parser.PlannedFuncCall; an argument is decoded JSON or a nested call
PlannedFuncCall(name, purpose, args) ==
    [t |-> "call", Name |-> name, Purpose |-> purpose, Args |-> args]
Call(name, args) == PlannedFuncCall(name, "purpose", args)

\* bags as functions element -> count
Inc(b, e) == IF e \in DOMAIN b THEN [b EXCEPT ![e] = @ + 1] ELSE (e :> 1) @@ b
Dec(b, e) == IF b[e] = 1 THEN [x \in DOMAIN b \ {e} |-> b[x]] ELSE [b EXCEPT ![e] = @ - 1]
Count(b, e) == IF e \in DOMAIN b THEN b[e] ELSE 0

\* ------------------------------------------------------------------ tools
ToolSet ==
    << [Name |-> "get_coordinates", Required |-> <<"city">>],
       [Name |-> "get_weather_forecast", Required |-> <<"coordinates">>] >>

RECURSIVE FindIn(_, _)
FindIn(fs, name) ==
    IF fs = <<>> THEN Nil
    ELSE IF Head(fs).Name = name THEN Head(fs)
    ELSE FindIn(Tail(fs), name)

FindTool(name) == FindIn(ToolSet, name)

Registered == {"get_coordinates", "get_weather_forecast"}

\* what an executor does with its arguments
Kinds == {"ok", "absent", "absentFmt", "error", "hang"}

\* ------------------------------------------------------------------ plans
Names == Registered \cup {"get_news"}
Props == [get_coordinates |-> {"city"}, get_weather_forecast |-> {"coordinates"},
          get_news |-> {"coordinates"}]
Literals == [city |-> {Str("Turin")}, coordinates |-> {Obj([lat |-> Num(0), lon |-> Num(0)])}]
Producers == [city |-> {}, coordinates |-> {"get_coordinates", "get_news"}]

RECURSIVE PlannedCalls(_, _)
ArgChoices(k, d) ==
    Literals[k] \cup
    (IF d = 0 THEN {} ELSE UNION {PlannedCalls(f, d - 1) : f \in Producers[k]})

PlannedCalls(name, d) ==
    {Call(name, a) :
        a \in UNION {{m \in [S -> UNION {ArgChoices(k, d) : k \in S}] :
                        \A k \in S : m[k] \in ArgChoices(k, d)} :
                     S \in SUBSET Props[name]}}

TopCalls == UNION {PlannedCalls(n, MaxDepth) : n \in Names}
Plans == UNION {[1..n -> TopCalls] : n \in 1..MaxPlan}

\* ------------------------------------------------------------------ plan parser
ParseOk(v) == [ok |-> TRUE, v |-> v, err |-> "none"]
ParseErr(e) == [ok |-> FALSE, v |-> Nil, err |-> e]
ErrInvalidJSON == "invalid JSON structure"

\* json.Unmarshal into struct{Understanding string; MainFunctions []interface{}}:
\* null leaves the struct as it is, a field that is absent or null stays zero,
\* a value of another type than the field's is an error
UnmarshalPlan(doc) ==
    IF doc.t = "garbage" THEN ParseErr("unmarshal")
    ELSE IF doc.t = "null" THEN ParseOk(<<>>)
    ELSE IF doc.t # "obj" THEN ParseErr("unmarshal")
    ELSE IF "understanding" \in DOMAIN doc.m /\ doc.m["understanding"].t \notin {"str", "null"}
         THEN ParseErr("unmarshal")
    ELSE IF "main_functions" \notin DOMAIN doc.m THEN ParseOk(<<>>)
    ELSE IF doc.m["main_functions"].t = "null" THEN ParseOk(<<>>)
    ELSE IF doc.m["main_functions"].t # "arr" THEN ParseErr("unmarshal")
    ELSE ParseOk(doc.m["main_functions"].a)

RECURSIVE parseFuncDetails(_, _)
RECURSIVE parseArgs(_)
RECURSIVE parseNestedFunc(_)

\* variant: an object whose func_call is not a single-entry mapping is kept as a literal
parseArgLenient(v) ==
    IF v.t = "obj"
    THEN IF "func_call" \in DOMAIN v.m /\ v.m["func_call"].t = "obj"
            /\ Cardinality(DOMAIN v.m["func_call"].m) = 1
         THEN parseNestedFunc(v.m["func_call"].m)
         ELSE ParseOk(v)
    ELSE IF v.t = "str" /\ v.s = "" THEN ParseOk(Nil)
    ELSE ParseOk(v)

\* variant: every string is stored, the empty one too
parseArgKeepEmpty(v) ==
    IF v.t = "obj"
    THEN IF "func_call" \in DOMAIN v.m /\ v.m["func_call"].t = "obj"
         THEN parseNestedFunc(v.m["func_call"].m)
         ELSE ParseOk(v)
    ELSE ParseOk(v)

\* variant: no nested calls, a func_call mapping is an error
parseArgNoNesting(v) ==
    IF v.t = "obj"
    THEN IF "func_call" \in DOMAIN v.m /\ v.m["func_call"].t = "obj"
         THEN ParseErr(ErrInvalidJSON)
         ELSE ParseOk(v)
    ELSE IF v.t = "str" /\ v.s = "" THEN ParseOk(Nil)
    ELSE ParseOk(v)

\* the value parseArgs stores under a key (Nil: the key is left out)
parseArg(v) ==
    IF v.t = "obj"
    THEN IF "func_call" \in DOMAIN v.m /\ v.m["func_call"].t = "obj"
         THEN parseNestedFunc(v.m["func_call"].m)
         ELSE ParseOk(v)
    ELSE IF v.t = "str" /\ v.s = "" THEN ParseOk(Nil)
    ELSE ParseOk(v)

parseArgs(args) ==
    IF \E key \in DOMAIN args : ~parseArg(args[key]).ok
    THEN ParseErr(parseArg(args[CHOOSE key \in DOMAIN args : ~parseArg(args[key]).ok]).err)
    ELSE ParseOk([key \in {k \in DOMAIN args : parseArg(args[k]).v # Nil} |->
                     parseArg(args[key]).v])

parseFuncDetails(funcName, funcDetails) ==
    IF funcDetails.t # "obj" THEN ParseErr(ErrInvalidJSON)
    ELSE IF "purpose" \notin DOMAIN funcDetails.m THEN ParseErr(ErrInvalidJSON)
    ELSE IF funcDetails.m["purpose"].t # "str" THEN ParseErr(ErrInvalidJSON)
    ELSE IF "args" \notin DOMAIN funcDetails.m THEN ParseErr(ErrInvalidJSON)
    ELSE IF funcDetails.m["args"].t # "obj" THEN ParseErr(ErrInvalidJSON)
    ELSE IF ~parseArgs(funcDetails.m["args"].m).ok
         THEN ParseErr(parseArgs(funcDetails.m["args"].m).err)
    ELSE ParseOk(PlannedFuncCall(funcName, funcDetails.m["purpose"].s,
                                 parseArgs(funcDetails.m["args"].m).v))

parseNestedFunc(funcCall) ==
    IF Cardinality(DOMAIN funcCall) # 1 THEN ParseErr(ErrInvalidJSON)
    ELSE parseFuncDetails(CHOOSE funcName \in DOMAIN funcCall : TRUE,
                          funcCall[CHOOSE funcName \in DOMAIN funcCall : TRUE])

\* one element of main_functions
parseMainFunction(funcInterface) ==
    IF funcInterface.t # "obj" THEN ParseErr(ErrInvalidJSON)
    ELSE IF Cardinality(DOMAIN funcInterface.m) # 1 THEN ParseErr(ErrInvalidJSON)
    ELSE parseFuncDetails(CHOOSE funcName \in DOMAIN funcInterface.m : TRUE,
                          funcInterface.m[CHOOSE funcName \in DOMAIN funcInterface.m : TRUE])

RECURSIVE parseMainFunctions(_)
parseMainFunctions(entries) ==
    IF entries = <<>> THEN ParseOk(<<>>)
    ELSE IF ~parseMainFunction(Head(entries)).ok THEN ParseErr(parseMainFunction(Head(entries)).err)
    ELSE IF ~parseMainFunctions(Tail(entries)).ok THEN parseMainFunctions(Tail(entries))
    ELSE ParseOk(<<parseMainFunction(Head(entries)).v>> \o parseMainFunctions(Tail(entries)).v)

ParseJsonFunctions(jsonData) ==
    IF ~UnmarshalPlan(jsonData).ok THEN UnmarshalPlan(jsonData)
    ELSE parseMainFunctions(UnmarshalPlan(jsonData).v)

\* variant: only the name of the call itself is collected
CollectOwnName(function) == <<function.Name>>

RECURSIVE CollectAllNestedFuncCalls(_)
RECURSIVE CollectArgs(_, _)
\* the names of a call's subtree, the call's own first (with repetitions; the
\* arguments are ranged over as a Go map, in no fixed order)
CollectArgs(function, keys) ==
    IF keys = {} THEN <<>>
    ELSE (IF function.Args[CHOOSE k \in keys : TRUE].t = "call"
          THEN CollectAllNestedFuncCalls(function.Args[CHOOSE k \in keys : TRUE])
          ELSE <<>>)
         \o CollectArgs(function, keys \ {CHOOSE k \in keys : TRUE})
CollectAllNestedFuncCalls(function) ==
    <<function.Name>> \o CollectArgs(function, DOMAIN function.Args)

\* the wire format of a planned call, and of a plan
RECURSIVE Wire(_)
\* variant: a nested call is written without the func_call wrapper
WireBare(function) ==
    (function.Name :>
        Obj([purpose |-> Str(function.Purpose),
             args |-> Obj([k \in DOMAIN function.Args |->
                             IF function.Args[k].t = "call"
                             THEN Obj(Wire(function.Args[k]))
                             ELSE function.Args[k]])]))

Wire(function) ==
    (function.Name :>
        Obj([purpose |-> Str(function.Purpose),
             args |-> Obj([k \in DOMAIN function.Args |->
                             IF function.Args[k].t = "call"
                             THEN Obj([func_call |-> Obj(Wire(function.Args[k]))])
                             ELSE function.Args[k]])]))
WirePlan(plan) ==
    Obj([understanding |-> Str("request"),
         main_functions |-> Arr([i \in DOMAIN plan |-> Obj(Wire(plan[i]))])])

\* ------------------------------------------------------------------ errors
\* An error is its innermost cause (kind, and the FormatFunc a FormattableError
\* carries) and the chain of *Error wrappers around it, outermost first.
NoErr == [kind |-> "none", ff |-> Nil, chain |-> <<>>]
Errorf(kind) == [kind |-> kind, ff |-> Nil, chain |-> <<>>]
NewFormattableError(ff) == [kind |-> "formattable", ff |-> ff, chain |-> <<>>]
Error(funcName, argName, err) ==
    [err EXCEPT !.chain = <<[FuncName |-> funcName, ArgName |-> argName]>> \o @]

\* errors.As follows Unwrap; *Error declares no Unwrap method, so the search
\* ends at the outermost error.
AsFormattableError(err) == err.chain = <<>> /\ err.kind = "formattable"

\* the design-level kind of an error (spec section 7)
KindOf(err) ==
    CASE err.kind = "unknown function" -> "UNKNOWN_FUNCTION"
      [] err.kind \in {"missing argument", "blank argument", "formattable"} -> "MISSING_REQUIRED"
      [] err.kind = "timed out" -> "TIMEOUT"
      [] err.kind = "executor" -> "EXECUTOR_ERROR"
      [] OTHER -> err.kind

\* ------------------------------------------------------------------ results
FuncResult(present, value, ff) ==
    [Present |-> present, Value |-> value, FormatFunc |-> ff, Metadata |-> Nil]
NewValueArg(v) == [t |-> "value", Value |-> v]
NewFuncArg(c) == [t |-> "func", Func |-> c]
ExecutedFuncCall(function, args, result) ==
    [Name |-> function.Name, Purpose |-> function.Purpose, Args |-> args, Result |-> result]

OkOut(c) == [t |-> "ok", call |-> c, err |-> NoErr]
ErrOut(e) == [t |-> "err", call |-> Nil, err |-> e]

\* The executor registered under `name`, as a deterministic function of its
\* materialized arguments: the outcome it hands back when it returns.
Closure(name, args) == [t |-> "fn", by |-> name, of |-> args]
\* a float64 that is not a number, as the Value of a result: a value any
\* executor may return, and one that encoding/json refuses to encode
NaN == [t |-> "nan"]
Executor(kind, name, args) ==
    CASE kind = "ok" ->
           [t |-> "result",
            result |-> FuncResult(TRUE, [t |-> "val", by |-> name, of |-> args], Closure(name, args))]
      [] kind = "absent" -> [t |-> "result", result |-> FuncResult(FALSE, Nil, Nil)]
      [] kind = "absentFmt" ->
           [t |-> "result", result |-> FuncResult(FALSE, Nil, Closure(name, args))]
      [] kind = "nan" ->
           [t |-> "result", result |-> FuncResult(TRUE, NaN, Closure(name, args))]
      [] OTHER -> [t |-> "error", err |-> Errorf("executor")]

\* ------------------------------------------------------------------ executeFunc, the pure parts
\* variant: the value of an absent nested call is materialized too
createProcessedArgsKeepAbsent(argsExecution) ==
    [k \in DOMAIN argsExecution |->
        IF argsExecution[k].t = "value" THEN argsExecution[k].Value
        ELSE argsExecution[k].Func.Result.Value]

createProcessedArgs(argsExecution) ==
    LET keep == {k \in DOMAIN argsExecution :
                    argsExecution[k].t = "value" \/ argsExecution[k].Func.Result.Present}
    IN [k \in keep |->
          IF argsExecution[k].t = "value" THEN argsExecution[k].Value
          ELSE argsExecution[k].Func.Result.Value]

\* the argument names, in the byte order of sort.Strings
KeyOrder == <<"city", "coordinates", "unit">>

\* variant: the keys are written in the order the iteration over the map gave
SortKeysNever(keys) == keys

\* encoding/json collects the keys of a map by iterating over it, and sorts them
SortKeys(keys) == SelectSeq(KeyOrder, LAMBDA k : k \in {keys[i] : i \in DOMAIN keys})

\* json.Marshal of struct{Name; Args}, when the iteration over Args gives its
\* keys in the order `keys`; SHA-256 is taken as injective on the encodings
MarshalCall(functionName, args, keys) ==
    [Name |-> functionName,
     Args |-> [i \in DOMAIN SortKeys(keys) |-> <<SortKeys(keys)[i], args[SortKeys(keys)[i]]>>]]

\* the orders in which an iteration over a map can give its keys
Iterations(args) ==
    {keys \in [1..Cardinality(DOMAIN args) -> DOMAIN args] :
        \A i, j \in DOMAIN keys : keys[i] = keys[j] => i = j}

\* json.Marshal fails on a value it does not support
UnsupportedValue(args) == \E k \in DOMAIN args : args[k] = NaN

\* what json.Marshal returns with an error: no data
NoData == <<>>

\* `data, _ := json.Marshal(...)`: the error is dropped and the hash is taken
\* of whatever data holds
generateFingerprint(functionName, args) ==
    IF UnsupportedValue(args)
    THEN NoData
    ELSE MarshalCall(functionName, args, CHOOSE keys \in Iterations(args) : TRUE)

\* variant: a check that is satisfied by any recorded argument
checkRequiredArgByKey(paramName, args) ==
    IF paramName \in DOMAIN args THEN NoErr ELSE Errorf("missing argument")

checkRequiredArg(paramName, args) ==
    IF paramName \notin DOMAIN args THEN Errorf("missing argument")
    ELSE IF args[paramName].t # "func" \/ args[paramName].Func.Result.Present THEN NoErr
    ELSE IF args[paramName].Func.Result.FormatFunc # Nil
         THEN NewFormattableError(args[paramName].Func.Result.FormatFunc)
    ELSE Errorf("blank argument")

RECURSIVE checkRequired(_, _, _)
checkRequired(required, name, args) ==
    IF required = <<>> THEN NoErr
    ELSE IF checkRequiredArg(Head(required), args) # NoErr
         THEN Error(name, Head(required), checkRequiredArg(Head(required), args))
    ELSE checkRequired(Tail(required), name, args)

checkRequiredArgs(function, args) ==
    IF FindTool(function.Name) = Nil THEN Errorf("function schema not found")
    ELSE checkRequired(FindTool(function.Name).Required, function.Name, args)

handleMissingRequiredArgsError(err, function, argsExecution) ==
    IF AsFormattableError(err)
    THEN OkOut(ExecutedFuncCall(function, argsExecution, FuncResult(FALSE, Nil, err.ff)))
    ELSE ErrOut(err)

\* ------------------------------------------------------------------ tasks and frames
\* A new activation of executeFunc, in processArgs.  The iterations of the
\* range over function.Args that meet a literal only fill the local map, in
\* whatever order they come: they are taken at once, and todo keeps the
\* arguments that are nested calls.
LiteralArgs(function) ==
    [k \in {a \in DOMAIN function.Args : function.Args[a].t # "call"} |->
        NewValueArg(function.Args[k])]

NewFrame(function) ==
    [call |-> function, pc |-> "args",
     todo |-> {a \in DOMAIN function.Args : function.Args[a].t = "call"}, key |-> "",
     args |-> LiteralArgs(function), pargs |-> <<>>, fp |-> Nil, g |-> "none", chan |-> Nil]

NewTask == [st |-> "new", stack |-> <<>>, err |-> NoErr]
NoRet == [task |-> 0, call |-> Nil, args |-> <<>>, out |-> [t |-> "none"],
          stage |-> "none", depth |-> 0, cancelSeen |-> FALSE]
Running == [t |-> "none"]

Top(i) == Head(tasks[i].stack)
Rest(i) == Tail(tasks[i].stack)
Active(i) == execPc = "running" /\ i \in DOMAIN tasks /\ tasks[i].st = "run"

\* variant: processArgs hands the error of a nested call up as it is
UnwindBare(stk, o) ==
    IF stk = <<>> \/ o.t = "err" THEN [stack |-> <<>>, out |-> o]
    ELSE [stack |-> <<[Head(stk) EXCEPT !.args = (Head(stk).key :> NewFuncArg(o.call)) @@ @,
                                        !.key = ""]>> \o Tail(stk),
          out |-> Running]

\* processArgs, after the nested executeFunc of argument `key` has returned o
\* to the frame on top of stk: an error is wrapped and returned further up,
\* a result is recorded as a FuncArg and the loop goes on.
RECURSIVE Unwind(_, _)
Unwind(stk, o) ==
    IF stk = <<>> THEN [stack |-> <<>>, out |-> o]
    ELSE IF o.t = "err"
         THEN Unwind(Tail(stk), ErrOut(Error(Head(stk).call.Name, Head(stk).key, o.err)))
    ELSE [stack |-> <<[Head(stk) EXCEPT !.args = (Head(stk).key :> NewFuncArg(o.call)) @@ @,
                                        !.key = ""]>> \o Tail(stk),
          out |-> Running]

\* the frames of task i become stk; nothing returns
Continue(i, stk) ==
    /\ tasks' = [tasks EXCEPT ![i].stack = stk, ![i].st = "run"]
    /\ UNCHANGED <<functionsExecution, groupErr, groupCancelled, lastRet>>

\* variant: a result goes to the first free slot, in the order of completion
TaskReturnInCompletionOrder(i, o) ==
    IF o.t = "ok"
    THEN /\ tasks' = [tasks EXCEPT ![i].st = "ok", ![i].stack = <<>>]
         /\ functionsExecution' =
               [functionsExecution EXCEPT
                  ![CHOOSE j \in DOMAIN functionsExecution :
                       /\ functionsExecution[j] = Nil
                       /\ \A l \in 1..(j - 1) : functionsExecution[l] # Nil] = o.call]
         /\ UNCHANGED <<groupErr, groupCancelled>>
    ELSE /\ tasks' = [tasks EXCEPT ![i].st = "err", ![i].stack = <<>>,
                                   ![i].err = Error(functions[i].Name, "", o.err)]
         /\ UNCHANGED functionsExecution
         /\ IF EnableConcurrentExec
            THEN /\ groupErr' = IF groupErr = NoErr
                                THEN Error(functions[i].Name, "", o.err) ELSE groupErr
                 /\ groupCancelled' = TRUE
            ELSE UNCHANGED <<groupErr, groupCancelled>>

\* variant: the group keeps the error of the task that failed last
TaskReturnLastError(i, o) ==
    IF o.t = "ok"
    THEN /\ tasks' = [tasks EXCEPT ![i].st = "ok", ![i].stack = <<>>]
         /\ functionsExecution' = [functionsExecution EXCEPT ![i] = o.call]
         /\ UNCHANGED <<groupErr, groupCancelled>>
    ELSE /\ tasks' = [tasks EXCEPT ![i].st = "err", ![i].stack = <<>>,
                                   ![i].err = Error(functions[i].Name, "", o.err)]
         /\ UNCHANGED functionsExecution
         /\ IF EnableConcurrentExec
            THEN /\ groupErr' = Error(functions[i].Name, "", o.err)
                 /\ groupCancelled' = TRUE
            ELSE UNCHANGED <<groupErr, groupCancelled>>

\* The body of the loop of executeSeq, and of the function executeConcurrent
\* hands to group.Go, after executeFunc returned o for top-level call i.
TaskReturn(i, o) ==
    IF o.t = "ok"
    THEN /\ tasks' = [tasks EXCEPT ![i].st = "ok", ![i].stack = <<>>]
         /\ functionsExecution' = [functionsExecution EXCEPT ![i] = o.call]
         /\ UNCHANGED <<groupErr, groupCancelled>>
    ELSE /\ tasks' = [tasks EXCEPT ![i].st = "err", ![i].stack = <<>>,
                                   ![i].err = Error(functions[i].Name, "", o.err)]
         /\ UNCHANGED functionsExecution
         /\ IF EnableConcurrentExec
            THEN /\ groupErr' = IF groupErr = NoErr
                                THEN Error(functions[i].Name, "", o.err) ELSE groupErr
                 /\ groupCancelled' = TRUE
            ELSE UNCHANGED <<groupErr, groupCancelled>>

\* executeFunc for `function` (called with the frames `rest` below it) returns o
Return(i, rest, function, args, o, stage) ==
    /\ lastRet' = [task |-> i, call |-> function, args |-> args, out |-> o,
                   stage |-> stage, depth |-> Len(rest), cancelSeen |-> groupCancelled]
    /\ IF Unwind(rest, o).out = Running
       THEN /\ tasks' = [tasks EXCEPT ![i].stack = Unwind(rest, o).stack, ![i].st = "run"]
            /\ UNCHANGED <<functionsExecution, groupErr, groupCancelled>>
       ELSE TaskReturn(i, Unwind(rest, o).out)

\* variant: an executeFunc that looks the executor up after processArgs
EnterArgsFirst(i, function, rest) == Continue(i, <<NewFrame(function)>> \o rest)

\* executeFunc, entry: the executor is looked up before anything else
Enter(i, function, rest) ==
    IF function.Name \notin DOMAIN Functions
    THEN Return(i, rest, function, <<>>,
                ErrOut(Error(function.Name, "", Errorf("unknown function"))), "lookup")
    ELSE Continue(i, <<NewFrame(function)>> \o rest)

\* variant: processArgs that goes on to the executor with nested calls pending
ArgsDoneEarly(f) == TRUE

\* processArgs has ranged over every argument of the frame
ArgsDone(f) == f.todo = {}

\* ------------------------------------------------------------------ Execute
\* Execute is called: executeSeq / executeConcurrent allocate the result slots;
\* the concurrent policy derives the group's context.
StartExecute(plan) ==
    /\ execPc = "idle"
    /\ runs < MaxRuns
    /\ execPc' = "running"
    /\ runs' = runs + 1
    /\ functions' = plan
    /\ tasks' = [i \in DOMAIN plan |-> NewTask]
    /\ functionsExecution' = [i \in DOMAIN plan |-> Nil]
    /\ groupErr' = NoErr
    /\ groupCancelled' = FALSE
    /\ lastRet' = NoRet
    /\ invoked' = <<>>
    /\ UNCHANGED <<Functions, Memo, EnableConcurrentExec, leaked, rets>>

\* a client calls Execute with a plan of its own
Execute ==
    /\ hpc = "off"
    /\ StartExecute(functions)
    /\ UNCHANGED <<handlerVars, pureVars>>

\* variant: an executeSeq that goes on to the next call after a failed one
MayStartAfterFailure(i) ==
    IF EnableConcurrentExec \/ i = 1 THEN TRUE ELSE tasks[i - 1].st \in {"ok", "err"}

\* sequential: the loop reaches call i when call i-1 has succeeded;
\* concurrent: the goroutine of call i starts at any time after group.Go
MayStart(i) ==
    IF EnableConcurrentExec \/ i = 1 THEN TRUE ELSE tasks[i - 1].st = "ok"

\* executeFunc is called for top-level call i
StartTask(i) ==
    /\ execPc = "running"
    /\ i \in DOMAIN tasks
    /\ tasks[i].st = "new"
    /\ MayStart(i)
    /\ Enter(i, functions[i], <<>>)
    /\ UNCHANGED <<Functions, Memo, EnableConcurrentExec, functions, execPc, runs,
                   leaked, rets, invoked, handlerVars, pureVars>>

\* processArgs: the next iteration of the range over function.Args that meets
\* a nested call (a Go map: the order of iteration is not fixed)
ProcessArg(i) ==
    /\ Active(i)
    /\ Top(i).pc = "args"
    /\ \E k \in Top(i).todo :
          Enter(i, Top(i).call.Args[k],
                <<[Top(i) EXCEPT !.todo = @ \ {k}, !.key = k]>> \o Rest(i))
    /\ UNCHANGED <<Functions, Memo, EnableConcurrentExec, functions, execPc, runs,
                   leaked, rets, invoked, handlerVars, pureVars>>

\* executeFunc from the required-argument check to the go statement: check,
\* materialize, fingerprint, memo lookup, and on a miss the goroutine that
\* calls the executor (the call is counted where the goroutine starts)
CheckAndLookup(i) ==
    /\ Active(i)
    /\ Top(i).pc = "args"
    /\ ArgsDone(Top(i))
    /\ LET f == Top(i)
           err == checkRequiredArgs(f.call, f.args)
           processedArgs == createProcessedArgs(f.args)
           fingerprint == generateFingerprint(f.call.Name, processedArgs)
       IN IF err # NoErr
          THEN Return(i, Rest(i), f.call, f.args,
                      handleMissingRequiredArgsError(err, f.call, f.args), "required")
          ELSE IF fingerprint \in DOMAIN Memo
               THEN Return(i, Rest(i), f.call, f.args,
                           OkOut(ExecutedFuncCall(f.call, f.args, Memo[fingerprint])), "memo")
          ELSE Continue(i, <<[f EXCEPT !.pc = "select", !.pargs = processedArgs,
                                       !.fp = fingerprint, !.g = "running"]>> \o Rest(i))
    /\ invoked' = LET f == Top(i)
                      processedArgs == createProcessedArgs(f.args)
                  IN IF checkRequiredArgs(f.call, f.args) = NoErr
                        /\ generateFingerprint(f.call.Name, processedArgs) \notin DOMAIN Memo
                     THEN Inc(invoked, [Name |-> f.call.Name, Args |-> processedArgs])
                     ELSE invoked
    /\ UNCHANGED <<Functions, Memo, EnableConcurrentExec, functions, execPc, runs,
                   leaked, rets, handlerVars, pureVars>>

\* resultChan and errChan are made with room for one value
ChanCap == 1

\* variant: channels made without a buffer
SendBlocksUnbuffered(buffered, receiving) == ~receiving

\* a send on a channel that holds `buffered` values waits when the buffer is
\* full and nobody is receiving.  The goroutine of a call is the only sender
\* on the two channels of the call and sends once: buffered is 0.
SendBlocks(buffered, receiving) == buffered >= ChanCap /\ ~receiving

\* what the goroutine sends: the result on resultChan, or the wrapped error on errChan
Sent(name, outcome) ==
    IF outcome.t = "error"
    THEN [t |-> "error", err |-> Error(name, "", outcome.err)]
    ELSE outcome

\* the executor returns and the goroutine sends; the channels hold one value,
\* so the send does not wait for a receiver
ExecutorReturn(i) ==
    /\ Active(i)
    /\ Top(i).pc = "select"
    /\ Top(i).g = "running"
    /\ Functions[Top(i).call.Name] # "hang"
    /\ ~SendBlocks(0, TRUE)
    /\ tasks' = [tasks EXCEPT ![i].stack =
                    <<[Top(i) EXCEPT !.g = "sent",
                                     !.chan = Sent(Top(i).call.Name,
                                                   Executor(Functions[Top(i).call.Name],
                                                            Top(i).call.Name, Top(i).pargs))]>>
                    \o Rest(i)]
    /\ UNCHANGED <<Functions, Memo, EnableConcurrentExec, functions, execPc, runs,
                   functionsExecution, groupErr, groupCancelled, leaked, rets, invoked, lastRet, handlerVars, pureVars>>

\* the memo after the result of a call is stored under its fingerprint
\* variant: an executeFunc that does not record its result
MemoStoreNothing(memo, fingerprint, result) == memo

MemoStore(memo, fingerprint, result) == (fingerprint :> result) @@ memo

\* select, case result := <-resultChan
SelectResult(i) ==
    /\ Active(i)
    /\ Top(i).pc = "select"
    /\ Top(i).g = "sent"
    /\ Top(i).chan.t = "result"
    /\ Memo' = MemoStore(Memo, Top(i).fp, Top(i).chan.result)
    /\ Return(i, Rest(i), Top(i).call, Top(i).args,
              OkOut(ExecutedFuncCall(Top(i).call, Top(i).args, Top(i).chan.result)), "result")
    /\ UNCHANGED <<Functions, EnableConcurrentExec, functions, execPc, runs,
                   leaked, rets, invoked, handlerVars, pureVars>>

\* select, case err := <-errChan
SelectErr(i) ==
    /\ Active(i)
    /\ Top(i).pc = "select"
    /\ Top(i).g = "sent"
    /\ Top(i).chan.t = "error"
    /\ Return(i, Rest(i), Top(i).call, Top(i).args, ErrOut(Top(i).chan.err), "error")
    /\ UNCHANGED <<Functions, Memo, EnableConcurrentExec, functions, execPc, runs,
                   leaked, rets, invoked, handlerVars, pureVars>>

\* variant: a ctx.Done case that records the result it finds on the channel
SelectDoneStoring(i) ==
    /\ Active(i)
    /\ Top(i).pc = "select"
    /\ leaked' = IF Top(i).g = "running"
                 THEN Inc(leaked, [Name |-> Top(i).call.Name, Args |-> Top(i).pargs])
                 ELSE leaked
    /\ Memo' = IF Top(i).g = "sent" /\ Top(i).chan.t = "result"
               THEN MemoStore(Memo, Top(i).fp, Top(i).chan.result)
               ELSE Memo
    /\ Return(i, Rest(i), Top(i).call, Top(i).args,
              ErrOut(Error(Top(i).call.Name, "", Errorf("timed out"))), "timeout")
    /\ UNCHANGED <<Functions, EnableConcurrentExec, functions, execPc, runs,
                   rets, invoked, handlerVars, pureVars>>

\* variant: a select without the ctx.Done case
SelectDoneNever(i) == FALSE /\ UNCHANGED vars

\* select, case <-ctx.Done(): the per-call timeout has fired or the context
\* above it is cancelled.  The timer may fire at any moment of the wait, also
\* when a value is ready on a channel (select then picks either case).  A
\* goroutine that has not sent yet outlives the call.
SelectDone(i) ==
    /\ Active(i)
    /\ Top(i).pc = "select"
    /\ leaked' = IF Top(i).g = "running"
                 THEN Inc(leaked, [Name |-> Top(i).call.Name, Args |-> Top(i).pargs])
                 ELSE leaked
    /\ Return(i, Rest(i), Top(i).call, Top(i).args,
              ErrOut(Error(Top(i).call.Name, "", Errorf("timed out"))), "timeout")
    /\ UNCHANGED <<Functions, Memo, EnableConcurrentExec, functions, execPc, runs,
                   rets, invoked, handlerVars, pureVars>>

\* the executor of a call that was given up returns: the send succeeds with
\* nobody receiving, and the goroutine ends
LeakedReturn(e) ==
    /\ e \in DOMAIN leaked
    /\ Functions[e.Name] # "hang"
    /\ ~SendBlocks(0, FALSE)
    /\ leaked' = Dec(leaked, e)
    /\ UNCHANGED <<Functions, Memo, EnableConcurrentExec, functions, execPc, runs, tasks,
                   functionsExecution, groupErr, groupCancelled, rets, invoked, lastRet, handlerVars, pureVars>>

\* what Execute returns
ResultOf(slots) == [t |-> "ok", FuncCalls |-> slots, err |-> NoErr]
FailureOf(e) == [t |-> "err", FuncCalls |-> Nil, err |-> e]

\* executeSeq returns at the first failed call, or after the last one
SeqReturns ==
    /\ ~EnableConcurrentExec
    /\ \/ \E i \in DOMAIN tasks : tasks[i].st = "err"
       \/ \A i \in DOMAIN tasks : tasks[i].st = "ok"

SeqReturn ==
    IF \E i \in DOMAIN tasks : tasks[i].st = "err"
    THEN FailureOf(tasks[CHOOSE i \in DOMAIN tasks : tasks[i].st = "err"].err)
    ELSE ResultOf(functionsExecution)

\* variant: a Wait that returns as soon as one goroutine has failed
WaitReturnsAtFirstError ==
    /\ EnableConcurrentExec
    /\ \/ \E i \in DOMAIN tasks : tasks[i].st = "err"
       \/ \A i \in DOMAIN tasks : tasks[i].st \in {"ok", "err"}

\* group.Wait returns once every goroutine of the group has returned
WaitReturns ==
    /\ EnableConcurrentExec
    /\ \A i \in DOMAIN tasks : tasks[i].st \in {"ok", "err"}

ConcurrentReturn ==
    IF groupErr # NoErr THEN FailureOf(groupErr) ELSE ResultOf(functionsExecution)

\* variant: an Execute that forgets what it memoized when it fails
ExecuteReturnRollingBack ==
    /\ execPc = "running"
    /\ SeqReturns \/ WaitReturns
    /\ rets' = Append(rets, IF EnableConcurrentExec THEN ConcurrentReturn ELSE SeqReturn)
    /\ Memo' = IF (IF EnableConcurrentExec THEN ConcurrentReturn ELSE SeqReturn).t = "err"
               THEN <<>> ELSE Memo
    /\ execPc' = "idle"
    /\ tasks' = <<>>
    /\ functionsExecution' = <<>>
    /\ groupErr' = NoErr
    /\ groupCancelled' = FALSE
    /\ lastRet' = NoRet
    /\ UNCHANGED <<Functions, EnableConcurrentExec, functions, runs, leaked, invoked,
                   handlerVars, pureVars>>

\* Execute returns what executeSeq or executeConcurrent returns
ExecuteReturn ==
    /\ execPc = "running"
    /\ SeqReturns \/ WaitReturns
    /\ rets' = Append(rets, IF EnableConcurrentExec THEN ConcurrentReturn ELSE SeqReturn)
    /\ execPc' = "idle"
    /\ tasks' = <<>>
    /\ functionsExecution' = <<>>
    /\ groupErr' = NoErr
    /\ groupCancelled' = FALSE
    /\ lastRet' = NoRet
    /\ UNCHANGED <<Functions, Memo, EnableConcurrentExec, functions, runs, leaked, invoked,
                   handlerVars, pureVars>>

\* ------------------------------------------------------------------ request handler
Bool(b) == [t |-> "bool", b |-> b]
\* llm.Completer.Complete returned an error
LLMError == [t |-> "llmerror"]

UnprocessableRequestPrompt ==
    "Unable to process this request. Please rephrase or provide a different query."
\* a FormatFunc that returns a fixed text
ConstFunc(text) == [t |-> "const", text |-> text]
\* calling a FormatFunc
CallFormatFunc(ff) == IF ff.t = "const" THEN ff.text ELSE <<"formatted", ff.by, ff.of>>

UnprocessableRequestExecutions ==
    [FuncCalls |->
       << [Name |-> "__builtin__.unprocessable_request",
           Purpose |-> "Return a response for an unprocessable request",
           Args |-> <<>>,
           Result |-> FuncResult(FALSE, Nil, ConstFunc(UnprocessableRequestPrompt))] >>]

\* what ProcessUserRequest returns
ProcessingResult(exec) == [t |-> "ok", Execution |-> exec, err |-> "none"]
ProcessingError(e) == [t |-> "err", Execution |-> Nil, err |-> e]

\* variant: a failed call of the planning LLM counts as an empty plan
generateFunctionCallsLenient(reply) ==
    IF reply = LLMError THEN ParseOk(<<>>) ELSE ParseJsonFunctions(reply)

\* generateFunctionCalls, from the planning LLM's reply on
generateFunctionCalls(reply) ==
    IF reply = LLMError THEN ParseErr("error calling LLM") ELSE ParseJsonFunctions(reply)

\* json.Unmarshal into struct{Success bool}
UnmarshalEvaluation(body) ==
    IF body.t = "garbage" THEN ParseErr("unmarshal")
    ELSE IF body.t = "null" THEN ParseOk(FALSE)
    ELSE IF body.t # "obj" THEN ParseErr("unmarshal")
    ELSE IF "success" \notin DOMAIN body.m THEN ParseOk(FALSE)
    ELSE IF body.m["success"].t = "null" THEN ParseOk(FALSE)
    ELSE IF body.m["success"].t # "bool" THEN ParseErr("unmarshal")
    ELSE ParseOk(body.m["success"].b)

\* variant: a failed call of the validation LLM counts as a verdict of false
evaluateSingleFunctionCallDropsOnError(reply) ==
    IF reply = LLMError THEN ParseOk(FALSE) ELSE UnmarshalEvaluation(reply)

\* variant: a verdict without a success field counts as consistent
evaluateSingleFunctionCallLenient(reply) ==
    IF reply = LLMError THEN ParseErr("error generating response for self-validation")
    ELSE IF reply.t = "obj" /\ "success" \notin DOMAIN reply.m THEN ParseOk(TRUE)
    ELSE UnmarshalEvaluation(reply)

\* evaluateSingleFunctionCall, from the validation LLM's reply on
evaluateSingleFunctionCall(reply) ==
    IF reply = LLMError THEN ParseErr("error generating response for self-validation")
    ELSE UnmarshalEvaluation(reply)

\* the names of the entry's subtree that FindTool does not find
MissingTools(function) ==
    {CollectAllNestedFuncCalls(function)[n] : n \in 1..Len(CollectAllNestedFuncCalls(function))}
        \ {ToolSet[n].Name : n \in 1..Len(ToolSet)}

\* variant: a ProcessUserRequest without the fallback
UnprocessableNever(calls) == FALSE

\* ProcessUserRequest: no call is left after validation
Unprocessable(calls) == Len(calls) = 0

\* the plans and the replies the LLM is made to give
HandlerCalls ==
    {Call("get_coordinates", [city |-> Str("Turin")]),
     Call("get_weather_forecast", [coordinates |-> Call("get_coordinates", [city |-> Str("Turin")])]),
     Call("get_weather_forecast", [coordinates |-> Call("get_news", <<>>)])}
HandlerPlans == UNION {[1..n -> HandlerCalls] : n \in 1..MaxPlan}
PlanningReplies ==
    {WirePlan(plan) : plan \in HandlerPlans}
        \cup {LLMError, Garbage, Null,
              Obj([understanding |-> Str("request")]),
              Obj([understanding |-> Str("request"), main_functions |-> Null]),
              Obj([understanding |-> Str("request"), main_functions |-> Arr(<<>>)]),
              Obj([understanding |-> Str("request"), main_functions |-> Arr(<<Str("get_coordinates")>>)])}
VerdictReplies ==
    {LLMError, Garbage,
     Obj([success |-> Bool(TRUE)]),
     Obj([success |-> Bool(TRUE), reason |-> Str("consistent")]),
     Obj([success |-> Bool(FALSE)]),
     Obj([reason |-> Str("consistent")]),
     Obj([success |-> Str("true")])}

\* ProcessUserRequest fails with e
Fail(e) ==
    /\ hpc' = "done"
    /\ hret' = ProcessingError(e)
    /\ validated' = <<>>

\* ProcessUserRequest up to the start of validation: the planning LLM is
\* called and its reply parsed
ProcessUserRequest ==
    /\ hpc \in {"idle", "done"}
    /\ requests < MaxRequests
    /\ requests' = requests + 1
    /\ verdicts' = <<>>
    /\ \E reply \in PlanningReplies, AlterUserRequest \in {"nil", "set"} :
          /\ completion' = reply
          /\ stages' = (IF AlterUserRequest = "nil" THEN <<>> ELSE <<"alter_user_request">>)
                          \o <<"plan">>
                          \o (IF reply = LLMError THEN <<>> ELSE <<"parse">>)
                          \o (IF generateFunctionCalls(reply).ok THEN <<"validate">> ELSE <<>>)
          /\ IF generateFunctionCalls(reply).ok
             THEN /\ funcCalls' = generateFunctionCalls(reply).v
                  /\ vi' = 1
                  /\ validated' = <<>>
                  /\ hpc' = "validate"
                  /\ hret' = Nil
             ELSE /\ Fail(<<"error generating function calls", generateFunctionCalls(reply).err>>)
                  /\ funcCalls' = <<>>
                  /\ vi' = 0
    /\ UNCHANGED <<functions, orchestratorVars, pureVars>>

\* evaluateFuncCallsConsistency: one iteration of the loop over funcCalls
evaluateFuncCallsConsistency ==
    /\ hpc = "validate"
    /\ vi \in DOMAIN funcCalls
    /\ IF MissingTools(funcCalls[vi]) # {}
       THEN /\ Fail(<<"error evaluating function calls consistency", "tool not found">>)
            /\ UNCHANGED <<vi, verdicts>>
       ELSE \E reply \in VerdictReplies :
               /\ verdicts' = Append(verdicts, reply)
               /\ IF ~evaluateSingleFunctionCall(reply).ok
                  THEN /\ Fail(<<"error evaluating function calls consistency",
                                 evaluateSingleFunctionCall(reply).err>>)
                       /\ UNCHANGED vi
                  ELSE /\ validated' = IF evaluateSingleFunctionCall(reply).v
                                       THEN Append(validated, funcCalls[vi]) ELSE validated
                       /\ vi' = vi + 1
                       /\ UNCHANGED <<hpc, hret>>
    /\ UNCHANGED <<requests, completion, funcCalls, stages, functions, orchestratorVars, pureVars>>

\* ProcessUserRequest returns the fallback
ReturnUnprocessable ==
    /\ hpc = "validate"
    /\ vi \notin DOMAIN funcCalls
    /\ Unprocessable(validated)
    /\ hpc' = "done"
    /\ hret' = ProcessingResult(UnprocessableRequestExecutions)
    /\ UNCHANGED <<requests, completion, funcCalls, vi, validated, verdicts, stages, functions,
                   orchestratorVars, pureVars>>

\* executeFunctionCalls: Execute is called with the validated calls
executeFunctionCalls ==
    /\ hpc = "validate"
    /\ vi \notin DOMAIN funcCalls
    /\ ~Unprocessable(validated)
    /\ IF Len(validated) = 0
       THEN /\ Fail(<<"error executing functions", "no function calls to execute">>)
            /\ UNCHANGED <<functions, orchestratorVars, pureVars>>
       ELSE /\ StartExecute(validated)
            /\ hpc' = "execute"
            /\ UNCHANGED <<validated, hret>>
    /\ stages' = Append(stages, "execute")
    /\ UNCHANGED <<requests, completion, funcCalls, vi, verdicts, pureVars>>

\* Execute has returned: the AlterResult hook, when there is one, is applied
\* and ProcessUserRequest returns
ProcessUserRequestReturn ==
    /\ hpc = "execute"
    /\ execPc = "idle"
    /\ hpc' = "done"
    /\ IF rets[Len(rets)].t = "err"
       THEN /\ hret' = ProcessingError(<<"error executing functions", KindOf(rets[Len(rets)].err)>>)
            /\ UNCHANGED stages
       ELSE \E AlterResult \in {"nil", "ok", "error"} :
               /\ hret' = IF AlterResult = "error"
                          THEN ProcessingError(<<"error on altering result", "hook">>)
                          ELSE ProcessingResult([FuncCalls |-> rets[Len(rets)].FuncCalls])
               /\ stages' = IF AlterResult = "nil" THEN stages ELSE Append(stages, "alter_result")
    /\ UNCHANGED <<requests, completion, funcCalls, vi, validated, verdicts, functions,
                   orchestratorVars, pureVars>>

\* ------------------------------------------------------------------ formatting
DefaultSeparator == "\n\n---\n"
\* a FormatFunc that returns an error
FailingFunc == [t |-> "failing"]

\* Result.MainFuncResults
MainFuncResults(e) == [i \in DOMAIN e.FuncCalls |-> e.FuncCalls[i].Result]

\* the first loop of Format: the texts of the results that have a FormatFunc
RECURSIVE Formatted(_)
Formatted(r) ==
    IF r = <<>> THEN <<>>
    ELSE IF Head(r).FormatFunc = Nil THEN Formatted(Tail(r))
    ELSE <<CallFormatFunc(Head(r).FormatFunc)>> \o Formatted(Tail(r))

\* variant: every text is kept
UniqueKeepAll(formatted, seen) == formatted

\* the second loop: a text is kept when it is not in seen
RECURSIVE Unique(_, _)
Unique(formatted, seen) ==
    IF formatted = <<>> THEN <<>>
    ELSE IF Head(formatted) \in seen THEN Unique(Tail(formatted), seen)
    ELSE <<Head(formatted)>> \o Unique(Tail(formatted), seen \cup {Head(formatted)})

\* strings.Join
RECURSIVE Join(_, _)
Join(elems, sep) ==
    IF elems = <<>> THEN ""
    ELSE IF Len(elems) = 1 THEN elems[1]
    ELSE elems[1] \o sep \o Join(Tail(elems), sep)

\* FuncResults.Format; the first FormatFunc that returns an error ends it
Format(r, separator) ==
    IF \E i \in DOMAIN r : r[i].FormatFunc = FailingFunc
    THEN [ok |-> FALSE, v |-> "", err |-> "error formatting result"]
    ELSE ParseOk(Join(Unique(Formatted(r), {}),
                      IF separator = "" THEN DefaultSeparator ELSE separator))

\* ------------------------------------------------------------------ schema generation
\* tools.TypeInfo.  Nil is a nil Items pointer or a nil Properties map, <<>> a
\* nil or empty Required or Enum slice, "" an unset Description or Pattern.
TypeInfo(type, description, items, properties, required, enum, pattern) ==
    [Type |-> type, Description |-> description, Items |-> items,
     Properties |-> properties, Required |-> required, Enum |-> enum, Pattern |-> pattern]
FuncDefinition(name, description, parameters, returns) ==
    [Name |-> name, Description |-> description, Parameters |-> parameters, Returns |-> returns]

RECURSIVE isTypeUsedInTypeInfo(_, _)
isTypeUsedInTypeInfo(typeName, info) ==
    IF info.Type = typeName THEN TRUE
    ELSE IF info.Type = "array" /\ info.Items # Nil /\ info.Items.Type = typeName THEN TRUE
    ELSE IF info.Properties # Nil
         THEN \E name \in DOMAIN info.Properties :
                 isTypeUsedInTypeInfo(typeName, info.Properties[name])
    ELSE FALSE

isUsedAsArgumentType(tools, typeName) ==
    \E n \in DOMAIN tools.Functions :
        isTypeUsedInTypeInfo(typeName, tools.Functions[n].Parameters)

\* {"$ref": "#/$defs/<name>"}
Ref(name) == Obj("$ref" :> Str("#/$defs/" \o name))
\* json.Marshal of a []string
MarshalStrings(ss) == Arr([i \in DOMAIN ss |-> Str(ss[i])])

\* The template writes "type" always and each other keyword when the string
\* computed for it is not empty; %q writes a string as a quoted literal.
RECURSIVE transformTypeInfo(_, _)
transformTypeInfo(info, typeDefinitions) ==
    IF info.Type \in DOMAIN typeDefinitions THEN Ref(info.Type)
    ELSE
      LET Properties == info.Properties # Nil /\ DOMAIN info.Properties # {}
          Required == info.Properties # Nil /\ info.Required # <<>>
          keys == {"type"}
                    \cup (IF info.Description # "" THEN {"description"} ELSE {})
                    \cup (IF info.Enum # <<>> THEN {"enum"} ELSE {})
                    \cup (IF info.Pattern # "" THEN {"pattern"} ELSE {})
                    \cup (IF info.Items # Nil THEN {"items"} ELSE {})
                    \cup (IF Properties THEN {"properties", "additionalProperties"} ELSE {})
                    \cup (IF Required THEN {"required"} ELSE {})
      IN Obj([k \in keys |->
                CASE k = "type" -> Str(info.Type)
                  [] k = "description" -> Str(info.Description)
                  [] k = "enum" -> MarshalStrings(info.Enum)
                  [] k = "pattern" -> Str(info.Pattern)
                  [] k = "items" -> transformTypeInfo(info.Items, typeDefinitions)
                  [] k = "properties" ->
                        Obj([name \in DOMAIN info.Properties |->
                               transformTypeInfo(info.Properties[name], typeDefinitions)])
                  [] k = "additionalProperties" -> Bool(FALSE)
                  [] k = "required" -> MarshalStrings(info.Required)])

\* text/template writes a string as it is: between the quotes of the template
\* a quote or a backslash of the string ends or bends the JSON string
BreaksJSON(s) == \E i \in 1..Len(s) : SubSeq(s, i, i) \in {"\"", "\\"}

\* the definition of a function: the JSON the text stands for, and whether the
\* text is JSON at all
generateFunctionDefinition(tools, function) ==
    [valid |-> ~BreaksJSON(function.Name) /\ ~BreaksJSON(function.Description),
     json |->
       Obj([type |-> Str("object"),
            additionalProperties |-> Bool(FALSE),
            required |-> Arr(<<Str(function.Name)>>),
            properties |->
              Obj(function.Name :>
                    Obj([type |-> Str("object"),
                         description |-> Str(function.Description),
                         additionalProperties |-> Bool(FALSE),
                         required |-> Arr(<<Str("purpose"), Str("args")>>),
                         properties |->
                           Obj([purpose |-> Obj([type |-> Str("string")]),
                                args |-> transformTypeInfo(function.Parameters,
                                                           tools.TypeDefinitions)])]))])]

\* the names of the functions whose return type is typeName, in their order
RECURSIVE FunctionsReturning(_, _)
FunctionsReturning(fs, typeName) ==
    IF fs = <<>> THEN <<>>
    ELSE (IF Head(fs).Returns.Type = typeName THEN <<Head(fs).Name>> ELSE <<>>)
            \o FunctionsReturning(Tail(fs), typeName)

FuncCallReturning(functionNames) ==
    Obj([type |-> Str("object"),
         required |-> Arr(<<Str("func_call")>>),
         additionalProperties |-> Bool(FALSE),
         properties |->
           Obj([func_call |->
                  Obj([oneOf |-> Arr([i \in DOMAIN functionNames |-> Ref(functionNames[i])])])])])

\* typeToFunctions has a key for each return type that is used as an argument
\* type; the definitions, keyed by their names
ReturnedAndUsed(tools) ==
    {T \in {tools.Functions[n].Returns.Type : n \in DOMAIN tools.Functions} :
        isUsedAsArgumentType(tools, T)}
generateFuncCallReturningDefinitions(tools) ==
    [defName \in {"func_call_returning_" \o T : T \in ReturnedAndUsed(tools)} |->
        FuncCallReturning(FunctionsReturning(tools.Functions,
            CHOOSE T \in ReturnedAndUsed(tools) : "func_call_returning_" \o T = defName))]

generateTypeDefinition(tools, typeName, typeInfo) ==
    IF isUsedAsArgumentType(tools, typeName)
    THEN Obj([oneOf |-> Arr(<<transformTypeInfo(typeInfo, tools.TypeDefinitions),
                              Ref("func_call_returning_" \o typeName)>>)])
    ELSE transformTypeInfo(typeInfo, tools.TypeDefinitions)

\* The entries of $defs after "func_call": one per function, one per type
\* definition, one per func_call_returning definition.  The names are the keys
\* of one JSON object.
FunctionNames(tools) == {tools.Functions[n].Name : n \in DOMAIN tools.Functions}
Defs(tools) ==
    [name \in FunctionNames(tools) \cup DOMAIN tools.TypeDefinitions
                \cup DOMAIN generateFuncCallReturningDefinitions(tools) |->
        IF name \in FunctionNames(tools)
        THEN generateFunctionDefinition(tools,
                 tools.Functions[CHOOSE n \in DOMAIN tools.Functions :
                                    tools.Functions[n].Name = name]).json
        ELSE IF name \in DOMAIN tools.TypeDefinitions
        THEN generateTypeDefinition(tools, name, tools.TypeDefinitions[name])
        ELSE generateFuncCallReturningDefinitions(tools)[name]]

\* The template puts a comma after the entry "func_call" of $defs and then the
\* other entries: with none of them the text ends in ", }", and json.Compact
\* rejects it, as it rejects a function definition that is not JSON.
toJSONSchema(tools) ==
    IF DOMAIN Defs(tools) = {} THEN ParseErr("error compacting schema")
    ELSE IF \E n \in DOMAIN tools.Functions :
               ~generateFunctionDefinition(tools, tools.Functions[n]).valid
         THEN ParseErr("error compacting schema")
    ELSE ParseOk(
           Obj(("$schema" :> Str("http://json-schema.org/draft-07/schema#"))
               @@ ("$defs" :>
                      Obj(("func_call" :>
                             Obj([oneOf |-> Arr([n \in DOMAIN tools.Functions |->
                                                   Ref(tools.Functions[n].Name)])]))
                          @@ Defs(tools)))
               @@ [type |-> Str("object"),
                   properties |->
                     Obj([understanding |-> Obj([type |-> Str("string")]),
                          main_functions |->
                            Obj([type |-> Str("array"), items |-> Ref("func_call")])]),
                   required |-> Arr(<<Str("understanding"), Str("main_functions")>>),
                   additionalProperties |-> Bool(FALSE)]))

ToJSONSchema(tools) == toJSONSchema(tools)

\* ------------------------------------------------------------------ specification
Init ==
    /\ Functions \in [Registered -> Kinds]
    /\ EnableConcurrentExec \in BOOLEAN
    /\ functions \in Plans
    /\ Memo = <<>>
    /\ execPc = "idle"
    /\ runs = 0
    /\ tasks = <<>>
    /\ functionsExecution = <<>>
    /\ groupErr = NoErr
    /\ groupCancelled = FALSE
    /\ leaked = <<>>
    /\ rets = <<>>
    /\ invoked = <<>>
    /\ lastRet = NoRet
    /\ hpc = "off"
    /\ requests = 0
    /\ completion = Nil
    /\ funcCalls = <<>>
    /\ vi = 0
    /\ validated = <<>>
    /\ verdicts = <<>>
    /\ hret = Nil
    /\ stages = <<>>
    /\ input = Nil
    /\ output = Nil

Step(i) ==
    \/ StartTask(i)
    \/ ProcessArg(i)
    \/ CheckAndLookup(i)
    \/ ExecutorReturn(i)
    \/ SelectResult(i)
    \/ SelectErr(i)
    \/ SelectDone(i)

Next ==
    \/ Execute
    \/ \E i \in 1..MaxPlan : Step(i)
    \/ \E e \in DOMAIN leaked : LeakedReturn(e)
    \/ ExecuteReturn

Spec == Init /\ [][Next]_vars

\* Some registered executor never returns.  The Go scheduler runs every
\* runnable goroutine and the runtime fires every armed timer: a task that
\* can take a step takes one, and a finished Execute returns.
InitHang == Init /\ \E name \in Registered : Functions[name] = "hang"

FairSpec ==
    /\ InitHang
    /\ [][Next]_vars
    /\ \A i \in 1..MaxPlan : WF_vars(Step(i))
    /\ WF_vars(ExecuteReturn)

\* The request handler: the orchestrator is the handler's own, and Execute is
\* called by ProcessUserRequest only.
HandlerInit ==
    /\ Functions \in [Registered -> Kinds]
    /\ EnableConcurrentExec \in BOOLEAN
    /\ functions = <<>>
    /\ Memo = <<>>
    /\ execPc = "idle"
    /\ runs = 0
    /\ tasks = <<>>
    /\ functionsExecution = <<>>
    /\ groupErr = NoErr
    /\ groupCancelled = FALSE
    /\ leaked = <<>>
    /\ rets = <<>>
    /\ invoked = <<>>
    /\ lastRet = NoRet
    /\ hpc = "idle"
    /\ requests = 0
    /\ completion = Nil
    /\ funcCalls = <<>>
    /\ vi = 0
    /\ validated = <<>>
    /\ verdicts = <<>>
    /\ hret = Nil
    /\ stages = <<>>
    /\ input = Nil
    /\ output = Nil

HandlerNext ==
    \/ ProcessUserRequest
    \/ evaluateFuncCallsConsistency
    \/ ReturnUnprocessable
    \/ executeFunctionCalls
    \/ \E i \in 1..MaxPlan : Step(i)
    \/ \E e \in DOMAIN leaked : LeakedReturn(e)
    \/ ExecuteReturn
    \/ ProcessUserRequestReturn

HandlerSpec == HandlerInit /\ [][HandlerNext]_vars

\* Plans whose calls carry an argument that Required does not list: the
\* forecast is asked with literal coordinates and, or not, a "unit" that is a
\* nested call, or with two nested calls, the one for the coordinates to a
\* function that has no executor.
OptionalCalls ==
    {Call("get_weather_forecast", a) :
        a \in {[coordinates |-> v] : v \in Literals["coordinates"]}
             \cup {[coordinates |-> v, unit |-> c] :
                      v \in Literals["coordinates"] \cup PlannedCalls("get_news", 0),
                      c \in PlannedCalls("get_coordinates", 0)}}
OptionalPlans == UNION {[1..n -> OptionalCalls] : n \in 1..MaxPlan}

OptionalInit ==
    /\ Functions \in [Registered -> Kinds]
    /\ EnableConcurrentExec \in BOOLEAN
    /\ functions \in OptionalPlans
    /\ Memo = <<>>
    /\ execPc = "idle"
    /\ runs = 0
    /\ tasks = <<>>
    /\ functionsExecution = <<>>
    /\ groupErr = NoErr
    /\ groupCancelled = FALSE
    /\ leaked = <<>>
    /\ rets = <<>>
    /\ invoked = <<>>
    /\ lastRet = NoRet
    /\ hpc = "off"
    /\ requests = 0
    /\ completion = Nil
    /\ funcCalls = <<>>
    /\ vi = 0
    /\ validated = <<>>
    /\ verdicts = <<>>
    /\ hret = Nil
    /\ stages = <<>>
    /\ input = Nil
    /\ output = Nil

OptionalSpec == OptionalInit /\ [][Next]_vars

\* Plans whose calls take the result of a nested get_coordinates, with
\* executors that may return a NaN.
NanKinds == {"ok", "nan", "error"}
NanCalls ==
    {Call("get_coordinates", [city |-> v]) :
        v \in Literals["city"] \cup PlannedCalls("get_coordinates", 0)}
    \cup {Call("get_weather_forecast", [coordinates |-> v]) :
              v \in Literals["coordinates"] \cup PlannedCalls("get_coordinates", 0)}
NanPlans == UNION {[1..n -> NanCalls] : n \in 1..MaxPlan}

NanInit ==
    /\ Functions \in [Registered -> NanKinds]
    /\ EnableConcurrentExec \in BOOLEAN
    /\ functions \in NanPlans
    /\ Memo = <<>>
    /\ execPc = "idle"
    /\ runs = 0
    /\ tasks = <<>>
    /\ functionsExecution = <<>>
    /\ groupErr = NoErr
    /\ groupCancelled = FALSE
    /\ leaked = <<>>
    /\ rets = <<>>
    /\ invoked = <<>>
    /\ lastRet = NoRet
    /\ hpc = "off"
    /\ requests = 0
    /\ completion = Nil
    /\ funcCalls = <<>>
    /\ vi = 0
    /\ validated = <<>>
    /\ verdicts = <<>>
    /\ hret = Nil
    /\ stages = <<>>
    /\ input = Nil
    /\ output = Nil

NanSpec == NanInit /\ [][Next]_vars

\* ------------------------------------------------------------------ functions applied to inputs
\* no orchestrator run and no request in progress
Unused ==
    /\ Functions = [name \in Registered |-> "ok"]
    /\ EnableConcurrentExec = FALSE
    /\ functions = <<>>
    /\ Memo = <<>>
    /\ execPc = "idle"
    /\ runs = 0
    /\ tasks = <<>>
    /\ functionsExecution = <<>>
    /\ groupErr = NoErr
    /\ groupCancelled = FALSE
    /\ leaked = <<>>
    /\ rets = <<>>
    /\ invoked = <<>>
    /\ lastRet = NoRet
    /\ hpc = "off"
    /\ requests = 0
    /\ completion = Nil
    /\ funcCalls = <<>>
    /\ vi = 0
    /\ validated = <<>>
    /\ verdicts = <<>>
    /\ hret = Nil
    /\ stages = <<>>

PureInit ==
    /\ Unused
    /\ input = Nil
    /\ output = Nil

\* the documents the parser is given
Details(purpose, args) == Obj([purpose |-> purpose, args |-> args])
NestedDoc == Obj([func_call |-> Obj(Wire(Call("get_coordinates", [city |-> Str("Turin")])))])
ArgDocs ==
    {Str(""), Str("Turin"), Num(1), Bool(TRUE), Null,
     Obj([lat |-> Num(0), lon |-> Num(0)]),
     NestedDoc,
     Obj([func_call |-> Obj(Wire(Call("get_coordinates", [city |-> Str("Turin")]))),
          note |-> Str("extra")]),
     Obj([func_call |-> Obj([get_coordinates |-> Str("Turin")])]),
     Obj([func_call |-> Obj(<<>>)]),
     Obj([func_call |-> Obj([get_coordinates |-> Details(Str("purpose"), Obj(<<>>)),
                             get_news |-> Details(Str("purpose"), Obj(<<>>))])]),
     Obj([func_call |-> Str("get_coordinates")])}
EntryArgs ==
    {[k \in DOMAIN a |-> a[k]] : a \in UNION {[S -> ArgDocs] : S \in SUBSET {"city", "coordinates"}}}
GoodEntries ==
    {Obj([get_weather_forecast |-> Details(Str("purpose"), Obj(a))]) : a \in EntryArgs}
BadEntries ==
    {Str("get_coordinates"),
     Obj(<<>>),
     Obj([get_coordinates |-> Details(Str("purpose"), Obj(<<>>)),
          get_news |-> Details(Str("purpose"), Obj(<<>>))]),
     Obj([get_coordinates |-> Str("Turin")]),
     Obj([get_coordinates |-> Obj([args |-> Obj(<<>>)])]),
     Obj([get_coordinates |-> Details(Num(1), Obj(<<>>))]),
     Obj([get_coordinates |-> Obj([purpose |-> Str("purpose")])]),
     Obj([get_coordinates |-> Details(Str("purpose"), Arr(<<>>))])}
MainFunctions(entries) ==
    Obj([understanding |-> Str("request"), main_functions |-> Arr(entries)])
ParserInputs ==
    {Garbage, Null, Arr(<<>>), Str("request"),
     Obj([understanding |-> Str("request")]),
     Obj([understanding |-> Str("request"), main_functions |-> Null]),
     Obj([understanding |-> Str("request"), main_functions |-> Str("get_coordinates")]),
     Obj([understanding |-> Num(1), main_functions |-> Arr(<<>>)]),
     MainFunctions(<<>>)}
      \cup {MainFunctions(<<e>>) : e \in GoodEntries \cup BadEntries}
      \cup {MainFunctions(<<Obj(Wire(Call("get_coordinates", [city |-> Str("Turin")]))), e>>) :
               e \in BadEntries}
      \cup {MainFunctions(<<e, Obj(Wire(Call("get_coordinates", [city |-> Str("Turin")])))>>) :
               e \in BadEntries}

\* ParseJsonFunctions is called
Parse ==
    /\ \E jsonData \in ParserInputs :
          /\ input' = jsonData
          /\ output' = ParseJsonFunctions(jsonData)
    /\ UNCHANGED <<functions, orchestratorVars, handlerVars>>

ParserSpec == PureInit /\ [][Parse]_vars

\* ToolSets: the types and functions of the weather example, with parameters
\* that mention a defined type directly, as array items, inside a nested
\* object, or not at all.  Names are plain and pairwise different, and every
\* type named is a JSON Schema primitive or defined.
Primitive(type) == TypeInfo(type, "", Nil, Nil, <<>>, <<>>, "")
Described(type, description) == TypeInfo(type, description, Nil, Nil, <<>>, <<>>, "")
Object(properties, required) == TypeInfo("object", "", Nil, properties, required, <<>>, "")
Array(items) == TypeInfo("array", "", items, Nil, <<>>, <<>>, "")
Primitives == {"object", "array", "string", "number", "integer", "boolean"}
AllTypeDefinitions ==
    [coordinates_value |->
        Object([lat |-> Described("number", "Latitude of the location"),
                lon |-> Described("number", "Longitude of the location")], <<>>),
     weather_forecast_value |->
        Object([temperature |-> Array(Primitive("number"))], <<>>)]
ParameterChoices ==
    {Object([city |-> Described("string", "The city name")], <<"city">>),
     Object([coordinates |-> Described("coordinates_value", "The latitude and longitude")],
            <<"coordinates">>),
     Object([places |-> Array(Primitive("coordinates_value"))], <<"places">>),
     Object([area |-> Object([center |-> Primitive("coordinates_value")], <<>>)], <<>>),
     Object([stops |-> Array(Object([at |-> Primitive("coordinates_value")], <<>>))], <<>>),
     Object([unit |-> TypeInfo("string", "", Nil, Nil, <<>>, <<"celsius", "fahrenheit">>, "")],
            <<>>)}
ReturnChoices ==
    {Primitive("coordinates_value"), Primitive("weather_forecast_value"), Primitive("string")}
DescriptionChoices == {"Retrieve the forecast", "Retrieve the \"best\" match"}
FuncDefinitions ==
    {FuncDefinition(name, description, parameters, returns) :
        name \in Registered, description \in DescriptionChoices,
        parameters \in ParameterChoices, returns \in ReturnChoices}
RECURSIVE TypesNamed(_)
TypesNamed(info) ==
    {info.Type}
      \cup (IF info.Items # Nil THEN TypesNamed(info.Items) ELSE {})
      \cup (IF info.Properties # Nil
            THEN UNION {TypesNamed(info.Properties[k]) : k \in DOMAIN info.Properties}
            ELSE {})
Resolves(fs, typeDefinitions) ==
    \A n \in DOMAIN fs :
        TypesNamed(fs[n].Parameters) \cup TypesNamed(fs[n].Returns)
            \subseteq Primitives \cup DOMAIN typeDefinitions
ToolSets ==
    {[Functions |-> fs, TypeDefinitions |-> [T \in D |-> AllTypeDefinitions[T]]] :
        <<fs, D>> \in
          {<<fs, D>> \in (UNION {[1..n -> FuncDefinitions] : n \in 0..MaxFunctions})
                              \X (SUBSET DOMAIN AllTypeDefinitions) :
              /\ \A i, j \in DOMAIN fs : fs[i].Name = fs[j].Name => i = j
              /\ Resolves(fs, [T \in D |-> AllTypeDefinitions[T]])}}

SchemaInit ==
    /\ Unused
    /\ input \in ToolSets
    /\ output = Nil

Generate ==
    /\ output = Nil
    /\ output' = ToJSONSchema(input)
    /\ UNCHANGED <<input, functions, orchestratorVars, handlerVars>>

SchemaSpec == SchemaInit /\ [][Generate]_vars

\* the ToolSet of the weather example, and the one scoped to its second function
ExampleToolSet ==
    [Functions |->
        <<FuncDefinition("get_coordinates", "Retrieve the coordinates",
              Object([city |-> Described("string", "The city name")], <<"city">>),
              Primitive("coordinates_value")),
          FuncDefinition("get_weather_forecast", "Retrieve the forecast",
              Object([coordinates |->
                         Described("coordinates_value", "The latitude and longitude")],
                     <<"coordinates">>),
              Primitive("weather_forecast_value"))>>,
     TypeDefinitions |-> AllTypeDefinitions]
ScopedToolSet == [ExampleToolSet EXCEPT !.Functions = Tail(@)]

\* a ToolSet and the reply of the planner: the schema is generated from the
\* first, the second is parsed
RoundTripInit ==
    /\ Unused
    /\ input \in [tools : {ExampleToolSet, ScopedToolSet},
                   jsonData : ParserInputs \cup {WirePlan(plan) : plan \in Plans}]
    /\ output = Nil

RoundTrip ==
    /\ output = Nil
    /\ output' = [schema |-> ToJSONSchema(input.tools),
                  parsed |-> ParseJsonFunctions(input.jsonData)]
    /\ UNCHANGED <<input, functions, orchestratorVars, handlerVars>>

RoundTripSpec == RoundTripInit /\ [][RoundTrip]_vars

\* evaluateFuncCallsConsistency, the body of its loop up to usedToolSet: the
\* tools of the names collected from the entry, in the order collected, and
\* the type definitions of the available tools
RECURSIVE usedTools(_, _)
usedTools(at, usedToolsName) ==
    IF usedToolsName = <<>> THEN ParseOk(<<>>)
    ELSE IF FindIn(at.Functions, Head(usedToolsName)) = Nil THEN ParseErr("tool not found")
    ELSE IF ~usedTools(at, Tail(usedToolsName)).ok THEN ParseErr("tool not found")
    ELSE ParseOk(<<FindIn(at.Functions, Head(usedToolsName))>>
                    \o usedTools(at, Tail(usedToolsName)).v)
usedToolSet(at, function) ==
    IF ~usedTools(at, CollectAllNestedFuncCalls(function)).ok THEN ParseErr("tool not found")
    ELSE ParseOk([Functions |-> usedTools(at, CollectAllNestedFuncCalls(function)).v,
                  TypeDefinitions |-> at.TypeDefinitions])

\* the entries whose tools are collected: calls nested one level deeper than
\* the plans, calls with two nested arguments, and calls whose two nested
\* arguments are calls to the same function
TwinCalls ==
    {Call("get_weather_forecast", [coordinates |-> c, unit |-> d]) :
        c \in PlannedCalls("get_coordinates", 0), d \in PlannedCalls("get_coordinates", 0)}
ScopeCalls ==
    UNION {PlannedCalls(n, MaxDepth + 1) : n \in Names} \cup OptionalCalls \cup TwinCalls

ScopeInit ==
    /\ Unused
    /\ input \in [at : {ExampleToolSet, ScopedToolSet}, function : ScopeCalls]
    /\ output = Nil

Scope ==
    /\ output = Nil
    /\ output' = usedToolSet(input.at, input.function)
    /\ UNCHANGED <<input, functions, orchestratorVars, handlerVars>>

ScopeSpec == ScopeInit /\ [][Scope]_vars

\* the results of an execution and a separator
FormatFuncs == {Nil, ConstFunc("Turin is at 45N 7E"), ConstFunc("Sunny, 21 degrees"), FailingFunc}
Executions ==
    {[FuncCalls |-> [i \in DOMAIN ffs |->
                       ExecutedFuncCall(Call("get_weather_forecast", <<>>), <<>>,
                                        FuncResult(ffs[i] # Nil, Nil, ffs[i]))]] :
        ffs \in UNION {[1..n -> FormatFuncs] : n \in 0..MaxResults}}
Separators == {"", ", "}

FormatInit ==
    /\ Unused
    /\ input \in [e : Executions, separator : Separators]
    /\ output = Nil

FormatResults ==
    /\ output = Nil
    /\ output' = Format(MainFuncResults(input.e), input.separator)
    /\ UNCHANGED <<input, functions, orchestratorVars, handlerVars>>

FormatSpec == FormatInit /\ [][FormatResults]_vars

\* a call of generateFingerprint, and two orders in which the runtime may give
\* the keys of its Args to the encoder
MaterializedArgs ==
    UNION {[S -> {Str("Turin"), Num(1)}] : S \in SUBSET {"city", "coordinates", "unit"}}
FingerprintInit ==
    /\ Unused
    /\ input \in UNION {[name : Registered, args : {args}, first : Iterations(args),
                          second : Iterations(args)] : args \in MaterializedArgs}
    /\ output = Nil

Fingerprint ==
    /\ output = Nil
    /\ output' = [first |-> MarshalCall(input.name, input.args, input.first),
                  second |-> MarshalCall(input.name, input.args, input.second)]
    /\ UNCHANGED <<input, functions, orchestratorVars, handlerVars>>

FingerprintSpec == FingerprintInit /\ [][Fingerprint]_vars

\* ------------------------------------------------------------------ the function catalog
\* orderedmap.Type: the pairs in the order they were added; a []interface{};
\* a []string
OrderedMap(items) == [t |-> "omap", Items |-> items]
List(a) == [t |-> "list", a |-> a]
Strings(ss) == [t |-> "strings", ss |-> ss]

\* getType.  Each call either returns or makes one recursive call whose result
\* it returns, behind "array of " for an array: a frame holds the TypeInfo of
\* the current call and what the calls above it put before the result.
getTypeFrame(typeInfo) == [info |-> typeInfo, prefix |-> "", done |-> FALSE, type |-> ""]

getTypeNext(frame, typeDefinitions) ==
    IF frame.info.Type \in DOMAIN typeDefinitions
    THEN IF typeDefinitions[frame.info.Type].Type = "object"
         THEN [frame EXCEPT !.done = TRUE, !.type = frame.prefix \o frame.info.Type]
         ELSE [frame EXCEPT !.info = typeDefinitions[frame.info.Type]]
    ELSE IF frame.info.Type = "array" /\ frame.info.Items # Nil
         THEN [frame EXCEPT !.info = frame.info.Items, !.prefix = @ \o "array of "]
    ELSE [frame EXCEPT !.done = TRUE, !.type = frame.prefix \o frame.info.Type]

RECURSIVE getTypeFrom(_, _)
getTypeFrom(frame, typeDefinitions) ==
    IF frame.done THEN frame.type
    ELSE getTypeFrom(getTypeNext(frame, typeDefinitions), typeDefinitions)
getType(typeInfo, typeDefinitions) == getTypeFrom(getTypeFrame(typeInfo), typeDefinitions)

\* the keys of a map in the order the range over it gives them, when the
\* runtime's order for this rendering of this function is `order`
Ranged(properties, order) == SelectSeq(order, LAMBDA k : k \in DOMAIN properties)

RECURSIVE getTypeInfo(_, _, _)
getTypeInfo(info, typeDefinitions, order) ==
    OrderedMap(
        << <<"type", Str(getType(info, typeDefinitions))>>,
           <<"description", Str(info.Description)>> >>
        \o (IF info.Properties # Nil
            THEN << <<"properties",
                      OrderedMap([i \in DOMAIN Ranged(info.Properties, order) |->
                          <<Ranged(info.Properties, order)[i],
                            getTypeInfo(info.Properties[Ranged(info.Properties, order)[i]],
                                        typeDefinitions, order)>>])>> >>
            ELSE <<>>)
        \o (IF info.Required # <<>> THEN << <<"required", Strings(info.Required)>> >>
            ELSE <<>>))

\* generateToolsDefinition, when the ranges made for function n follow orders[n]
generateToolsDefinition(tools, orders) ==
    OrderedMap(<< <<"functions",
        List([n \in DOMAIN tools.Functions |->
                OrderedMap(<< <<"name", Str(tools.Functions[n].Name)>>,
                              <<"description", Str(tools.Functions[n].Description)>>,
                              <<"args", getTypeInfo(tools.Functions[n].Parameters,
                                                    tools.TypeDefinitions, orders[n])>> >>)])>> >>)

\* strings.Repeat
RECURSIVE Repeat(_, _)
Repeat(str, count) == IF count = 0 THEN "" ELSE str \o Repeat(str, count - 1)
\* json.Marshal of a string without quotes, backslashes or control characters
Quote(str) == "\"" \o str \o "\""
RECURSIVE Commas(_)
Commas(texts) ==
    IF texts = <<>> THEN ""
    ELSE IF Len(texts) = 1 THEN texts[1]
    ELSE texts[1] \o "," \o Commas(Tail(texts))
RECURSIVE Lines(_, _)
Lines(texts, nextIndentStr) ==
    IF texts = <<>> THEN ""
    ELSE IF Len(texts) = 1 THEN nextIndentStr \o texts[1]
    ELSE nextIndentStr \o texts[1] \o ",\n" \o Lines(Tail(texts), nextIndentStr)

RECURSIVE marshalJSONValue(_, _)
MarshalJSONIndent(om, indent) ==
    "{\n"
      \o Lines([i \in DOMAIN om.Items |->
                   Quote(om.Items[i][1]) \o ": " \o marshalJSONValue(om.Items[i][2], indent + 1)],
               Repeat("    ", indent + 1))
      \o "\n" \o Repeat("    ", indent) \o "}"
marshalJSONArray(arr, indent) ==
    "[\n"
      \o Lines([i \in DOMAIN arr |-> marshalJSONValue(arr[i], indent + 1)],
               Repeat("    ", indent + 1))
      \o "\n" \o Repeat("    ", indent) \o "]"
marshalJSONValue(v, indent) ==
    CASE v.t = "omap" -> MarshalJSONIndent(v, indent)
      [] v.t = "list" -> marshalJSONArray(v.a, indent)
      [] v.t = "strings" -> "[" \o Commas([i \in DOMAIN v.ss |-> Quote(v.ss[i])]) \o "]"
      [] OTHER -> Quote(v.s)

ToJSONDefinitions(tools, orders) == MarshalJSONIndent(generateToolsDefinition(tools, orders), 0)

\* ToolSets to render: functions with one, two and three parameters, whose
\* types are primitive, defined objects, arrays and aliases; and for each
\* function the order in which the runtime ranges over its properties, once for
\* each of two renderings
CatalogTypeDefinitions ==
    [coordinates_value |-> AllTypeDefinitions["coordinates_value"],
     city_name |-> Primitive("string")]
CatalogParameters ==
    {Object([city |-> Described("city_name", "The city name")], <<"city">>),
     Object([coordinates |-> Described("coordinates_value", "The latitude and longitude"),
             unit |-> Described("string", "celsius or fahrenheit")], <<"coordinates">>),
     Object([city |-> Described("string", "The city name"),
             coordinates |-> Array(Primitive("coordinates_value")),
             unit |-> Described("string", "celsius or fahrenheit")], <<>>)}
CatalogToolSets ==
    {[Functions |-> fs, TypeDefinitions |-> CatalogTypeDefinitions] :
        fs \in {fs \in UNION {[1..n -> {FuncDefinition(name, "Retrieve the value", parameters,
                                                        Primitive("coordinates_value")) :
                                           name \in Registered,
                                           parameters \in CatalogParameters}] :
                              n \in 0..MaxFunctions} :
                   \A i, j \in DOMAIN fs : fs[i].Name = fs[j].Name => i = j}}
RangeOrders == [1..MaxFunctions -> Iterations([k \in {"city", "coordinates", "unit"} |-> Nil])]

CatalogInit ==
    /\ Unused
    /\ input \in [tools : CatalogToolSets, first : RangeOrders, second : RangeOrders]
    /\ output = Nil

Render ==
    /\ output = Nil
    /\ output' = [first |-> ToJSONDefinitions(input.tools, input.first),
                  second |-> ToJSONDefinitions(input.tools, input.second)]
    /\ UNCHANGED <<input, functions, orchestratorVars, handlerVars>>

CatalogSpec == CatalogInit /\ [][Render]_vars

\* getType on dictionaries of user-defined types that are not objects: each
\* of the two names is defined as a built-in type, as an object, as an array
\* of strings, or as an alias of one of the two names.  A call of getType is
\* followed one recursive call at a time, on a stack that takes StackLimit
\* calls: the Go runtime aborts the process when a goroutine's stack exceeds
\* its limit.
StackLimit == 8
AliasNames == {"id", "code"}
AliasDefinitions ==
    {Primitive(type) : type \in {"string", "object"} \cup AliasNames}
      \cup {Array(Primitive("string"))}
AliasDictionaries == [AliasNames -> AliasDefinitions]
AliasTypeInfos ==
    {Primitive(type) : type \in {"string"} \cup AliasNames}
      \cup {Array(Primitive(type)) : type \in AliasNames}

AliasInit ==
    /\ Unused
    /\ input \in [typeDefinitions : AliasDictionaries, typeInfo : AliasTypeInfos]
    /\ output = Nil

\* getTypeInfo calls getType for a parameter
GetTypeCall ==
    /\ output = Nil
    /\ output' = [frame |-> getTypeFrame(input.typeInfo), depth |-> 1, overflow |-> FALSE]
    /\ UNCHANGED <<input, functions, orchestratorVars, handlerVars>>

\* the current call of getType returns, or calls getType; a call that does
\* not fit on the stack is the end of the process
GetTypeStep ==
    /\ output # Nil
    /\ ~output.frame.done
    /\ ~output.overflow
    /\ LET next == getTypeNext(output.frame, input.typeDefinitions)
       IN output' = IF next.done THEN [output EXCEPT !.frame = next]
                    ELSE IF output.depth = StackLimit THEN [output EXCEPT !.overflow = TRUE]
                    ELSE [output EXCEPT !.frame = next, !.depth = @ + 1]
    /\ UNCHANGED <<input, functions, orchestratorVars, handlerVars>>

\* a call that is made runs: the goroutine that renders is scheduled
AliasSpec ==
    /\ AliasInit
    /\ [][GetTypeCall \/ GetTypeStep]_vars
    /\ WF_vars(GetTypeCall)
    /\ WF_vars(GetTypeStep)

\* ------------------------------------------------------------------ properties
RECURSIVE BagSum(_, _)
BagSum(b, S) ==
    IF S = {} THEN 0
    ELSE b[CHOOSE x \in S : TRUE] + BagSum(b, S \ {CHOOSE x \in S : TRUE})

\* how often the executor of `name` was invoked by the current Execute
InvokedOf(name) == BagSum(invoked, {e \in DOMAIN invoked : e.Name = name})

Returned == execPc = "idle" /\ Len(rets) = runs /\ runs > 0
LastReturn == rets[Len(rets)]
Frames == UNION {{tasks[i].stack[n] : n \in 1..Len(tasks[i].stack)} : i \in DOMAIN tasks}
NestedKeys(function) == {k \in DOMAIN function.Args : function.Args[k].t = "call"}
FingerprintOf(function, args) ==
    generateFingerprint(function.Name, createProcessedArgs(args))

\* C1: under the concurrent policy a plan of two equal top-level calls yields
\* two results and invokes the function's executor exactly once
C1_TwinCallsShareOneInvocation ==
    (/\ EnableConcurrentExec
     /\ Len(functions) = 2
     /\ functions[1] = functions[2]
     /\ Returned /\ runs = 1 /\ LastReturn.t = "ok")
    => /\ Len(LastReturn.FuncCalls) = 2
       /\ InvokedOf(functions[1].Name) = 1

\* the nested-call arguments of a call have been executed: each is recorded
\* as a FuncArg holding the executed child, whose result is the one its
\* executor returned (kept in the memo under the child's fingerprint)
ChildrenDone(function, args) ==
    \A k \in NestedKeys(function) :
        /\ k \in DOMAIN args
        /\ args[k].t = "func"
        /\ args[k].Func.Name = function.Args[k].Name
        /\ FingerprintOf(function.Args[k], args[k].Func.Args) \in DOMAIN Memo
        /\ Memo[FingerprintOf(function.Args[k], args[k].Func.Args)] = args[k].Func.Result

\* C2: a call is checked, fingerprinted, looked up and its executor invoked
\* only after all its nested-call arguments have been executed, and the
\* executor is handed the value of each present child
C2_ChildrenBeforeParent ==
    /\ \A i \in DOMAIN tasks : \A n \in 1..Len(tasks[i].stack) :
          tasks[i].stack[n].pc = "select" =>
             /\ n = 1
             /\ ChildrenDone(tasks[i].stack[n].call, tasks[i].stack[n].args)
             /\ \A k \in NestedKeys(tasks[i].stack[n].call) :
                   tasks[i].stack[n].args[k].Func.Result.Present =>
                      /\ k \in DOMAIN tasks[i].stack[n].pargs
                      /\ tasks[i].stack[n].pargs[k] = tasks[i].stack[n].args[k].Func.Result.Value
    /\ lastRet.stage \in {"required", "memo", "result", "error", "timeout"} =>
          ChildrenDone(lastRet.call, lastRet.args)

C2_Witness ==
    \E f \in Frames :
        /\ f.pc = "select"
        /\ NestedKeys(f.call) # {}
        /\ \A k \in NestedKeys(f.call) : f.args[k].Func.Result.Present

\* C3: after a successful Execute, the next Execute of the same plan invokes no
\* executor and returns the same results
C3_ReplayFromMemo ==
    (runs >= 2 /\ Len(rets) >= runs - 1 /\ rets[runs - 1].t = "ok") =>
        /\ invoked = <<>>
        /\ \A f \in Frames : f.pc # "select"
        /\ Returned => LastReturn = rets[runs - 1]

C3_Witness ==
    /\ Returned /\ runs = 2 /\ rets[1].t = "ok"
    /\ \E i \in DOMAIN functions : NestedKeys(functions[i]) # {}

Unsatisfied(k, args) ==
    k \notin DOMAIN args \/ (args[k].t = "func" /\ ~args[k].Func.Result.Present)
Explains(k, args) ==
    k \in DOMAIN args /\ args[k].t = "func" /\ ~args[k].Func.Result.Present
    /\ args[k].Func.Result.FormatFunc # Nil
\* k is the first required parameter of the function's schema that args leaves unsatisfied
FirstUnsatisfied(function, k, args) ==
    /\ FindTool(function.Name) # Nil
    /\ \E n \in DOMAIN FindTool(function.Name).Required :
          /\ FindTool(function.Name).Required[n] = k
          /\ Unsatisfied(k, args)
          /\ \A m \in 1..(n - 1) : ~Unsatisfied(FindTool(function.Name).Required[m], args)

\* C4: a call whose required parameter comes from a nested call that is absent
\* and has a format_fn completes without error, absent, with the child's format_fn
C4_FormattableMissing ==
    \A k \in DOMAIN lastRet.args :
        (/\ lastRet.stage = "required"
         /\ FirstUnsatisfied(lastRet.call, k, lastRet.args)
         /\ Explains(k, lastRet.args))
        => /\ lastRet.out.t = "ok"
           /\ ~lastRet.out.call.Result.Present
           /\ lastRet.out.call.Result.FormatFunc = lastRet.args[k].Func.Result.FormatFunc

\* C5: a call that reaches the required-argument check with a required
\* parameter absent, or supplied by an absent child without format_fn, fails
\* with MISSING_REQUIRED naming the function and the parameter; no executor is
\* ever invoked for a call with an unsatisfied required parameter
C5_MissingRequired ==
    /\ \A k \in {"city", "coordinates"} :
          (/\ lastRet.stage = "required"
           /\ FirstUnsatisfied(lastRet.call, k, lastRet.args)
           /\ ~Explains(k, lastRet.args))
          => /\ lastRet.out.t = "err"
             /\ KindOf(lastRet.out.err) = "MISSING_REQUIRED"
             /\ lastRet.out.err.kind \in {"missing argument", "blank argument"}
             /\ Head(lastRet.out.err.chain) = [FuncName |-> lastRet.call.Name, ArgName |-> k]
    /\ \A f \in Frames : f.pc = "select" =>
          /\ FindTool(f.call.Name) # Nil
          /\ \A n \in DOMAIN FindTool(f.call.Name).Required :
                ~Unsatisfied(FindTool(f.call.Name).Required[n], f.args)
    /\ lastRet.stage \in {"memo", "result", "error", "timeout"} =>
          \A n \in DOMAIN FindTool(lastRet.call.Name).Required :
                ~Unsatisfied(FindTool(lastRet.call.Name).Required[n], lastRet.args)

C5_Witness ==
    /\ lastRet.stage = "required"
    /\ lastRet.depth = 0
    /\ NestedKeys(lastRet.call) # {}
    /\ \E k \in DOMAIN lastRet.args :
          FirstUnsatisfied(lastRet.call, k, lastRet.args) /\ ~Explains(k, lastRet.args)

\* C6: under the sequential policy the top-level calls run one after another
\* in plan order; the first failure makes Execute return that error and no
\* result, and no later top-level call is started
C6_SequentialOrder ==
    /\ [](~EnableConcurrentExec /\ execPc = "running" =>
            \A i \in DOMAIN tasks :
               /\ tasks[i].st # "new" => \A j \in 1..(i - 1) : tasks[j].st = "ok"
               /\ tasks[i].st = "err" =>
                     \A j \in DOMAIN tasks : j > i =>
                        tasks[j].st = "new" /\ functionsExecution[j] = Nil)
    /\ [][(~EnableConcurrentExec /\ execPc = "running" /\ execPc' = "idle") =>
            IF \E i \in DOMAIN tasks : tasks[i].st = "err"
            THEN \E i \in DOMAIN tasks :
                    /\ tasks[i].st = "err"
                    /\ rets' = Append(rets, [t |-> "err", FuncCalls |-> Nil, err |-> tasks[i].err])
                    /\ Head(tasks[i].err.chain) = [FuncName |-> functions[i].Name, ArgName |-> ""]
            ELSE /\ \A i \in DOMAIN tasks : tasks[i].st = "ok"
                 /\ rets'[Len(rets')].t = "ok"]_vars

C6_Witness ==
    /\ ~EnableConcurrentExec
    /\ Len(functions) = 2
    /\ Returned /\ LastReturn.t = "err"
    /\ Head(LastReturn.err.chain).FuncName = functions[1].Name
    /\ functions[1].Name # functions[2].Name
    /\ Functions[functions[2].Name] = "ok"

C8_TimeoutTerminates ==
    /\ [](lastRet.stage \in {"result", "error", "timeout"}
            /\ Functions[lastRet.call.Name] = "hang"
          => /\ lastRet.stage = "timeout"
             /\ lastRet.out.t = "err"
             /\ KindOf(lastRet.out.err) = "TIMEOUT"
             /\ Head(lastRet.out.err.chain).FuncName = lastRet.call.Name)
    /\ (execPc = "running") ~> (execPc = "idle")
    /\ \A i \in 1..MaxPlan :
          (groupCancelled /\ Active(i)) ~> ~Active(i)

C8_Witness ==
    /\ EnableConcurrentExec
    /\ Len(functions) = 2
    /\ Returned /\ LastReturn.t = "err" /\ KindOf(LastReturn.err) = "TIMEOUT"
    /\ \E e \in DOMAIN leaked : Functions[e.Name] = "hang"

\* ------------------------------------------------------------------ the request handler
\* the planning reply is a JSON object whose main_functions is absent or empty
NoMainFunctions(doc) ==
    /\ doc.t = "obj"
    /\ "main_functions" \in DOMAIN doc.m => doc.m["main_functions"] = Arr(<<>>)
\* a decoded verdict with success true; one with success false (or left out)
VerdictTrue(reply) ==
    reply.t = "obj" /\ "success" \in DOMAIN reply.m /\ reply.m["success"] = Bool(TRUE)
VerdictFalse(reply) ==
    reply.t = "obj" /\ ("success" \in DOMAIN reply.m => reply.m["success"] = Bool(FALSE))
\* every entry of a non-empty plan was evaluated and none was found consistent
AllDropped ==
    /\ Len(funcCalls) > 0
    /\ Len(verdicts) = Len(funcCalls)
    /\ \A n \in DOMAIN verdicts : VerdictFalse(verdicts[n])

\* C9: when the parser yields zero top-level calls (main_functions absent or
\* empty) or the validator drops every top-level call, ProcessUserRequest
\* returns success with exactly one ExecutedFuncCall, named
\* __builtin__.unprocessable_request, whose result is not present and whose
\* format function produces the fixed message; no executor is invoked.
C9_UnprocessableFallback ==
    (hpc = "done" /\ (NoMainFunctions(completion) \/ AllDropped)) =>
        /\ hret.t = "ok"
        /\ Len(hret.Execution.FuncCalls) = 1
        /\ hret.Execution.FuncCalls[1].Name = "__builtin__.unprocessable_request"
        /\ hret.Execution.FuncCalls[1].Result.Present = FALSE
        /\ CallFormatFunc(hret.Execution.FuncCalls[1].Result.FormatFunc)
              = "Unable to process this request. Please rephrase or provide a different query."
        /\ runs = 0
        /\ invoked = <<>>
        /\ leaked = <<>>

C9_Witness ==
    /\ hpc = "done"
    /\ AllDropped
    /\ Len(funcCalls) = MaxPlan
    /\ hret.t = "ok"
    /\ hret.Execution.FuncCalls[1].Name = "__builtin__.unprocessable_request"

\* the entries among the first n whose verdict has success true, in order
RECURSIVE KeptOf(_, _, _)
KeptOf(calls, replies, n) ==
    IF n = 0 THEN <<>>
    ELSE KeptOf(calls, replies, n - 1)
           \o (IF VerdictTrue(replies[n]) THEN <<calls[n]>> ELSE <<>>)

\* C10: the validator keeps a top-level call if and only if the verdict
\* obtained for that call has success true; the surviving calls are the input
\* calls in their original relative order, whatever the verdicts on the other
\* entries; they are what Execute is called with.
C10_KeptIffVerdictTrue ==
    /\ (\/ hpc \in {"validate", "execute"}
        \/ hpc = "done" /\ Len(verdicts) = Len(funcCalls)
             /\ \A n \in DOMAIN verdicts : VerdictTrue(verdicts[n]) \/ VerdictFalse(verdicts[n]))
       => validated = KeptOf(funcCalls, verdicts, Len(verdicts))
    /\ hpc = "execute" => functions = validated

C10_Witness ==
    /\ hpc = "execute"
    /\ Len(funcCalls) = 2
    /\ funcCalls[1] # funcCalls[2]
    /\ VerdictFalse(verdicts[1])
    /\ VerdictTrue(verdicts[2])
    /\ validated = <<funcCalls[2]>>

\* ------------------------------------------------------------------ the parser
\* the elements of the document's main_functions
EntriesOf(doc) ==
    IF doc.t = "obj" /\ "main_functions" \in DOMAIN doc.m /\ doc.m["main_functions"].t = "arr"
    THEN doc.m["main_functions"].a ELSE <<>>
\* details that are not an object, or lack a string purpose or an object args
BadDetails(d) ==
    \/ d.t # "obj"
    \/ "purpose" \notin DOMAIN d.m
    \/ "args" \notin DOMAIN d.m
    \/ d.m["purpose"].t # "str"
    \/ d.m["args"].t # "obj"
\* an entry that is not a single-entry mapping to well-formed details
BadEntry(e) ==
    \/ e.t # "obj"
    \/ Cardinality(DOMAIN e.m) # 1
    \/ \E name \in DOMAIN e.m : BadDetails(e.m[name])
Malformed(doc) ==
    \/ doc.t = "garbage"
    \/ \E n \in DOMAIN EntriesOf(doc) : BadEntry(EntriesOf(doc)[n])

\* C11: every malformed input other than an absent or empty main_functions
\* (undecodable JSON, an entry that is not a single-entry mapping, details
\* that are not an object, a missing or non-string purpose, missing or
\* non-object args) makes the parser return an INVALID_JSON error and no calls.
C11_MalformedIsInvalidJSON ==
    (input # Nil /\ Malformed(input)) =>
        /\ ~output.ok
        /\ output.err = ErrInvalidJSON
        /\ output.v = Nil

\* the input is a document of well-formed entries; the name and the args of entry n
WellFormed(doc) ==
    /\ EntriesOf(doc) # <<>>
    /\ \A n \in DOMAIN EntriesOf(doc) : ~BadEntry(EntriesOf(doc)[n])
EntryName(doc, n) == CHOOSE name \in DOMAIN EntriesOf(doc)[n].m : TRUE
EntryArgsOf(doc, n) == EntriesOf(doc)[n].m[EntryName(doc, n)].m["args"].m
\* an object with a func_call that is a mapping; one whose mapping has one entry
HasFuncCall(v) == v.t = "obj" /\ "func_call" \in DOMAIN v.m /\ v.m["func_call"].t = "obj"
SingleEntry(v) == HasFuncCall(v) /\ Cardinality(DOMAIN v.m["func_call"].m) = 1
\* the argument values of the document that satisfy P (as <<entry, key>>)
ArgsWhere(doc, P(_)) ==
    {<<n, k>> \in (DOMAIN EntriesOf(doc)) \X {"city", "coordinates"} :
        k \in DOMAIN EntryArgsOf(doc, n) /\ P(EntryArgsOf(doc, n)[k])}
IsObject(v) == v.t = "obj"
\* the parsed argument is the nested call the wrapper names
NestedAs(parsedArg, v) ==
    /\ parsedArg.t = "call"
    /\ parsedArg.Name \in DOMAIN v.m["func_call"].m
    /\ parsedArg.Purpose = v.m["func_call"].m[parsedArg.Name].m["purpose"].s
    /\ DOMAIN parsedArg.Args \subseteq DOMAIN v.m["func_call"].m[parsedArg.Name].m["args"].m
\* a single-entry func_call is stored as the nested call it describes
NestedStored ==
    output.ok =>
       \A e \in ArgsWhere(input, SingleEntry) :
          /\ e[2] \in DOMAIN output.v[e[1]].Args
          /\ NestedAs(output.v[e[1]].Args[e[2]], EntryArgsOf(input, e[1])[e[2]])

\* C12 as stated: an object argument with a single-entry func_call is parsed
\* recursively and stored as a nested call; every other object, one whose
\* func_call is not a single-entry mapping included, is stored unchanged and
\* does not make parsing fail.
C12_OtherObjectsAreLiterals ==
    (input # Nil /\ WellFormed(input)) =>
        /\ NestedStored
        /\ ArgsWhere(input, SingleEntry) = {} =>
              /\ output.ok
              /\ \A e \in ArgsWhere(input, IsObject) :
                    /\ e[2] \in DOMAIN output.v[e[1]].Args
                    /\ output.v[e[1]].Args[e[2]] = EntryArgsOf(input, e[1])[e[2]]

\* C12, amended: an object argument whose func_call is a mapping is parsed
\* recursively and stored as a nested call when the mapping has exactly one
\* entry, and makes parsing fail with INVALID_JSON when it has none or several;
\* every object without a func_call, or whose func_call is not a mapping, is
\* stored unchanged and does not make parsing fail.
C12_FuncCallMappingOrLiteral ==
    (input # Nil /\ WellFormed(input)) =>
        /\ NestedStored
        /\ ArgsWhere(input, HasFuncCall) # ArgsWhere(input, SingleEntry) =>
              ~output.ok /\ output.err = ErrInvalidJSON /\ output.v = Nil
        /\ ArgsWhere(input, HasFuncCall) = {} => output.ok
        /\ output.ok =>
              \A e \in ArgsWhere(input, IsObject) \ ArgsWhere(input, HasFuncCall) :
                 /\ e[2] \in DOMAIN output.v[e[1]].Args
                 /\ output.v[e[1]].Args[e[2]] = EntryArgsOf(input, e[1])[e[2]]

\* parsed: a nested call next to a literal object whose func_call is a string
C12_Witness ==
    /\ input # Nil /\ WellFormed(input)
    /\ output.ok
    /\ ArgsWhere(input, SingleEntry) = {<<1, "coordinates">>}
    /\ output.v[1].Args["coordinates"].t = "call"
    /\ "city" \in DOMAIN output.v[1].Args
    /\ output.v[1].Args["city"] = Obj([func_call |-> Str("get_coordinates")])

\* the empty string; a primitive other than the empty string
IsEmptyString(v) == v = Str("")
IsPrimitive(v) == v.t \in {"str", "num", "bool", "null"} /\ v # Str("")
\* the document without the arguments given as ""
WithoutEmpty(doc) ==
    MainFunctions([n \in DOMAIN EntriesOf(doc) |->
        Obj(EntryName(doc, n) :>
            Details(EntriesOf(doc)[n].m[EntryName(doc, n)].m["purpose"],
                    Obj([k \in {a \in DOMAIN EntryArgsOf(doc, n) :
                                   ~IsEmptyString(EntryArgsOf(doc, n)[a])} |->
                           EntryArgsOf(doc, n)[k]])))])

\* C13: an argument given as "" is left out of the parsed args, every other
\* primitive (non-empty string, number, boolean, null) is stored as it is
\* under its key; the plan parses to what it parses to without the "" arguments,
\* so a required parameter given as "" is reported missing like an omitted one.
C13_EmptyStringIsOmitted ==
    (input # Nil /\ WellFormed(input)) =>
        /\ output = ParseJsonFunctions(WithoutEmpty(input))
        /\ output.ok =>
              /\ \A e \in ArgsWhere(input, IsEmptyString) :
                    /\ e[2] \notin DOMAIN output.v[e[1]].Args
                    /\ checkRequiredArg(e[2], LiteralArgs(output.v[e[1]]))
                          = Errorf("missing argument")
              /\ \A e \in ArgsWhere(input, IsPrimitive) :
                    /\ e[2] \in DOMAIN output.v[e[1]].Args
                    /\ output.v[e[1]].Args[e[2]] = EntryArgsOf(input, e[1])[e[2]]

\* parsed: the required coordinates given as "" next to a city given as null
C13_Witness ==
    /\ input # Nil /\ WellFormed(input)
    /\ output.ok
    /\ ArgsWhere(input, IsEmptyString) = {<<1, "coordinates">>}
    /\ ArgsWhere(input, IsPrimitive) = {<<1, "city">>}
    /\ output.v[1].Name = "get_weather_forecast"
    /\ output.v[1].Args = [city |-> Null]
    /\ checkRequiredArgs(output.v[1], LiteralArgs(output.v[1])).kind = "missing argument"

\* ------------------------------------------------------------------ the schema
\* the definitions of the generated schema
SchemaDefs == output.v.m["$defs"].m
\* the return types of the functions; the types their arguments name
ReturnTypes(tools) == {tools.Functions[n].Returns.Type : n \in DOMAIN tools.Functions}
ArgumentTypes(tools) ==
    UNION {TypesNamed(tools.Functions[n].Parameters.Properties[k]) :
              <<n, k>> \in {<<n, k>> \in (DOMAIN tools.Functions) \X {"city", "coordinates",
                                               "places", "area", "stops", "unit"} :
                               k \in DOMAIN tools.Functions[n].Parameters.Properties}}
Wrapper(X) == "func_call_returning_" \o X
\* the $ref targets a schema names
RECURSIVE RefsOf(_)
RefsOf(v) ==
    IF v.t = "obj"
    THEN (IF "$ref" \in DOMAIN v.m THEN {v.m["$ref"].s} ELSE {})
            \cup UNION {RefsOf(v.m[k]) : k \in DOMAIN v.m}
    ELSE IF v.t = "arr" THEN UNION {RefsOf(v.a[i]) : i \in DOMAIN v.a}
    ELSE {}
\* the definition is an object requiring func_call, whose oneOf lists exactly names
WrapsCallsOf(def, names) ==
    /\ def.m["type"] = Str("object")
    /\ def.m["required"] = Arr(<<Str("func_call")>>)
    /\ DOMAIN def.m["properties"].m = {"func_call"}
    /\ LET oneOf == def.m["properties"].m["func_call"].m["oneOf"].a
       IN /\ {oneOf[i] : i \in DOMAIN oneOf} = {Ref(F) : F \in names}
          /\ Len(oneOf) = Cardinality(names)
\* the definition is transformTypeInfo of the type's definition, and no oneOf
IsBaseShape(def, tools, X) ==
    /\ X \in DOMAIN tools.TypeDefinitions
    /\ "oneOf" \notin DOMAIN def.m
    /\ def.m["type"] = Str(tools.TypeDefinitions[X].Type)
    /\ DOMAIN def.m["properties"].m = DOMAIN tools.TypeDefinitions[X].Properties

\* C14: for every type X that is the return type of a function and is named by
\* an argument, $defs/X of the generated schema is a oneOf of the base shape of
\* X and a reference to func_call_returning_X, and func_call_returning_X is an
\* object requiring func_call whose oneOf lists exactly the functions returning X.
C14_ReturnedAndUsedTypeAdmitsCalls ==
    (output # Nil /\ output.ok) =>
        \A X \in ReturnTypes(input) \cap ArgumentTypes(input) :
            /\ X \in DOMAIN SchemaDefs
            /\ DOMAIN SchemaDefs[X].m = {"oneOf"}
            /\ Len(SchemaDefs[X].m["oneOf"].a) = 2
            /\ IsBaseShape(SchemaDefs[X].m["oneOf"].a[1], input, X)
            /\ SchemaDefs[X].m["oneOf"].a[2] = Ref(Wrapper(X))
            /\ Wrapper(X) \in DOMAIN SchemaDefs
            /\ WrapsCallsOf(SchemaDefs[Wrapper(X)],
                            {input.Functions[n].Name :
                                n \in {i \in DOMAIN input.Functions :
                                          input.Functions[i].Returns.Type = X}})

\* C15: for a type T that is named by an argument and returned by no function,
\* the generated schema has no func_call_returning_T, and $defs/T is the plain
\* base shape of T: no oneOf, no reference to func_call_returning_T.
C15_UnreturnedTypeStaysPlain ==
    (output # Nil /\ output.ok) =>
        \A T \in ArgumentTypes(input) \ ReturnTypes(input) :
            /\ Wrapper(T) \notin DOMAIN SchemaDefs
            /\ T \in DOMAIN input.TypeDefinitions =>
                  /\ T \in DOMAIN SchemaDefs
                  /\ IsBaseShape(SchemaDefs[T], input, T)
                  /\ "#/$defs/" \o Wrapper(T) \notin RefsOf(SchemaDefs[T])

\* C16: for every ToolSet, the empty one included, generation succeeds and every
\* $ref of the schema points to a definition that $defs holds.
C16_SchemaIsWellFormed ==
    output # Nil =>
        /\ output.ok
        /\ RefsOf(output.v) \subseteq {"#/$defs/" \o name : name \in DOMAIN SchemaDefs}

\* ------------------------------------------------------------------ plans against the schema
\* JSON Schema draft-07, for the keywords the generator writes
HasType(v, type) ==
    CASE type = "object" -> v.t = "obj"
      [] type = "array" -> v.t = "arr"
      [] type = "string" -> v.t = "str"
      [] type \in {"number", "integer"} -> v.t = "num"
      [] type = "boolean" -> v.t = "bool"
      [] OTHER -> FALSE
RECURSIVE Validates(_, _, _)
Validates(schema, defs, v) ==
    /\ "$ref" \in DOMAIN schema.m =>
          \E name \in DOMAIN defs :
              /\ schema.m["$ref"].s = "#/$defs/" \o name
              /\ Validates(defs[name], defs, v)
    /\ "oneOf" \in DOMAIN schema.m =>
          Cardinality({i \in DOMAIN schema.m["oneOf"].a :
                          Validates(schema.m["oneOf"].a[i], defs, v)}) = 1
    /\ "type" \in DOMAIN schema.m => HasType(v, schema.m["type"].s)
    /\ "enum" \in DOMAIN schema.m =>
          \E i \in DOMAIN schema.m["enum"].a : schema.m["enum"].a[i] = v
    /\ ("items" \in DOMAIN schema.m /\ v.t = "arr") =>
          \A i \in DOMAIN v.a : Validates(schema.m["items"], defs, v.a[i])
    /\ ("properties" \in DOMAIN schema.m /\ v.t = "obj") =>
          \A k \in DOMAIN v.m \cap DOMAIN schema.m["properties"].m :
              Validates(schema.m["properties"].m[k], defs, v.m[k])
    /\ ("additionalProperties" \in DOMAIN schema.m /\ v.t = "obj") =>
          DOMAIN v.m \subseteq
              (IF "properties" \in DOMAIN schema.m THEN DOMAIN schema.m["properties"].m ELSE {})
    /\ ("required" \in DOMAIN schema.m /\ v.t = "obj") =>
          \A i \in DOMAIN schema.m["required"].a : schema.m["required"].a[i].s \in DOMAIN v.m

\* the reply validates against the schema generated from the ToolSet
ValidPlan ==
    /\ output.schema.ok
    /\ Validates(output.schema.v, output.schema.v.m["$defs"].m, input.jsonData)

FormatFuncAt(i) == input.e.FuncCalls[i].Result.FormatFunc
Kept ==
    {i \in DOMAIN input.e.FuncCalls :
        /\ FormatFuncAt(i) # Nil
        /\ \A j \in 1..(i - 1) :
              FormatFuncAt(j) = Nil \/ FormatFuncAt(j).text # FormatFuncAt(i).text}
\* the texts of the results in S, in the order of the results
RECURSIVE TextsOf(_)
TextsOf(S) ==
    IF S = {} THEN <<>>
    ELSE LET i == CHOOSE x \in S : \A y \in S : x <= y
         IN <<FormatFuncAt(i).text>> \o TextsOf(S \ {i})
\* no FormatFunc of the results returns an error
NoneFails == \A i \in DOMAIN input.e.FuncCalls : FormatFuncAt(i) # FailingFunc

\* C18: Format calls the FormatFunc of each top-level result that has one, in
\* order, skips the results that have none, keeps the first occurrence of each
\* distinct text in the original order, and joins the kept texts with the
\* separator, the default one when the given separator is empty.
C18_FormatKeepsFirstOccurrences ==
    (output # Nil /\ NoneFails) =>
        /\ output.ok
        /\ Cardinality(Kept) = 0 => output.v = ""
        /\ Cardinality(Kept) = 1 => output.v = TextsOf(Kept)[1]
        /\ Cardinality(Kept) = 2 =>
              output.v = TextsOf(Kept)[1]
                           \o (IF input.separator = "" THEN "\n\n---\n" ELSE input.separator)
                           \o TextsOf(Kept)[2]
        /\ Cardinality(Kept) <= 2

\* formatted with the default separator: a silent result, then a text, another
\* text, and the first text again
C18_Witness ==
    /\ output # Nil /\ NoneFails
    /\ input.separator = ""
    /\ Len(input.e.FuncCalls) = 4
    /\ FormatFuncAt(1) = Nil
    /\ FormatFuncAt(2) = ConstFunc("Sunny, 21 degrees")
    /\ FormatFuncAt(3) = ConstFunc("Turin is at 45N 7E")
    /\ FormatFuncAt(4) = ConstFunc("Sunny, 21 degrees")
    /\ output.v = "Sunny, 21 degrees\n\n---\nTurin is at 45N 7E"

\* ------------------------------------------------------------------ the error chain
\* d is the chain of wrappers of an error produced in `call` or below it: a
\* wrapper naming the call where the error arose (with the parameter, for a
\* required argument), under a wrapper <<enclosing function, argument>> for
\* each nested call on the way down
RECURSIVE Descent(_, _)
Descent(call, d) ==
    /\ d # <<>>
    /\ d[1].FuncName = call.Name
    /\ \/ Len(d) = 1
       \/ /\ Len(d) >= 2
          /\ d[1].ArgName \in DOMAIN call.Args
          /\ call.Args[d[1].ArgName].t = "call"
          /\ Descent(call.Args[d[1].ArgName], Tail(d))
\* Execute has returned an error
Failed == Returned /\ LastReturn.t = "err"

StageOrder == <<"alter_user_request", "plan", "parse", "validate", "execute", "alter_result">>
Position(stage) == CHOOSE n \in DOMAIN StageOrder : StageOrder[n] = stage
\* ProcessUserRequest has returned an error
RequestFailed == hpc = "done" /\ hret.t = "err"
\* the stage an error of ProcessUserRequest comes from
StageOfError ==
    CASE hret.err[1] = "error generating function calls" ->
             IF completion = LLMError THEN "plan" ELSE "parse"
      [] hret.err[1] = "error evaluating function calls consistency" -> "validate"
      [] hret.err[1] = "error executing functions" -> "execute"
      [] hret.err[1] = "error on altering result" -> "alter_result"

\* C20: the stages of a request run in the order alter_user_request, planning
\* LLM call, parse, validation, execution, alter_result, each after the one
\* before it (the hooks when they are set); when a stage fails it is the last
\* one that ran, and the request returns an error and no result.
C20_StagesInOrderAndFailFast ==
    /\ \A i, j \in DOMAIN stages : i < j => Position(stages[i]) < Position(stages[j])
    /\ \A i \in DOMAIN stages :
          /\ stages[i] = "plan" => i = Len(SelectSeq(stages, LAMBDA x : x = "alter_user_request")) + 1
          /\ stages[i] \in {"parse", "validate", "execute"} =>
                i > 1 /\ Position(stages[i - 1]) = Position(stages[i]) - 1
          /\ stages[i] = "alter_result" => i > 1 /\ stages[i - 1] = "execute"
    /\ requests > 0 => stages # <<>>
    /\ RequestFailed =>
          /\ hret.Execution = Nil
          /\ stages[Len(stages)] = StageOfError
    /\ (hpc = "done" /\ hret.t = "ok") => stages[Len(stages)] \in {"validate", "execute", "alter_result"}

\* a request with both hooks failed at execution: alter_result did not run
C20_Witness ==
    /\ RequestFailed
    /\ stages = <<"alter_user_request", "plan", "parse", "validate", "execute">>
    /\ hret.err[1] = "error executing functions"
    /\ rets[Len(rets)].err.kind = "executor"

\* ------------------------------------------------------------------ the fingerprint
\* C21: the fingerprint of a call depends only on the function name and on the
\* mapping of argument names to values: whatever the order in which the keys of
\* the mapping come, the fingerprint is the one generateFingerprint gives.
C21_FingerprintIgnoresKeyOrder ==
    output # Nil =>
        /\ output.first = output.second
        /\ output.first = generateFingerprint(input.name, input.args)
        /\ output.first.Name = input.name
        /\ {output.first.Args[i][1] : i \in DOMAIN output.first.Args} = DOMAIN input.args
        /\ \A i \in DOMAIN output.first.Args :
              output.first.Args[i][2] = input.args[output.first.Args[i][1]]

\* three arguments, their keys given in two different orders
C21_Witness ==
    /\ output # Nil
    /\ Len(input.first) = 3
    /\ input.first = <<"unit", "city", "coordinates">>
    /\ input.second = <<"coordinates", "unit", "city">>
    /\ output.first = output.second

\* ------------------------------------------------------------------ the error of the group
\* task i fails in this step
Fails(i) ==
    /\ i \in DOMAIN tasks /\ i \in DOMAIN tasks'
    /\ tasks[i].st # "err" /\ tasks'[i].st = "err"
NoneFailed == \A j \in DOMAIN tasks : tasks[j].st # "err"

\* C22: under the concurrent policy the group takes the error of the first
\* top-level task that fails, which fails before the group's context is
\* cancelled; the errors of the tasks that fail after it, stopped by the
\* cancellation or not, leave it unchanged, and it is what Execute returns.
C22_FirstFailureIsReturned ==
    [][EnableConcurrentExec =>
          /\ \A i \in 1..MaxPlan :
                Fails(i) =>
                    IF NoneFailed
                    THEN /\ groupErr = NoErr /\ ~groupCancelled
                         /\ groupErr' = tasks'[i].err /\ groupCancelled'
                    ELSE /\ groupErr # NoErr /\ groupCancelled
                         /\ groupErr' = groupErr
          /\ (execPc = "running" /\ execPc' = "running" /\ groupErr # NoErr) =>
                groupErr' = groupErr
          /\ (execPc = "running" /\ execPc' = "idle" /\ ~NoneFailed) =>
                rets' = Append(rets, FailureOf(groupErr))]_vars

\* the second task failed in its executor, the first was then stopped at its
\* select: the group holds the error of the second
C22_Witness ==
    /\ EnableConcurrentExec
    /\ execPc = "running"
    /\ Len(functions) = 2
    /\ tasks[1].st = "err" /\ tasks[2].st = "err"
    /\ tasks[2].err.kind = "executor"
    /\ tasks[1].err.kind = "timed out"
    /\ lastRet.task = 1 /\ lastRet.cancelSeen
    /\ groupErr = tasks[2].err

\* ------------------------------------------------------------------ unknown functions
\* every activation of executeFunc that went past the lookup is of a
\* registered function
FramesAreRegistered ==
    \A i \in DOMAIN tasks : \A d \in DOMAIN tasks[i].stack :
        tasks[i].stack[d].call.Name \in DOMAIN Functions

\* executeFunc returns from its lookup in this step
LookupFails == lastRet' # lastRet /\ lastRet'.stage = "lookup"

\* C23: a call to a function without an executor fails at the lookup with
\* the "unknown function" error that carries its name, before processArgs: no
\* activation exists for it, so none of its nested calls is entered, and the
\* step invokes no executor and leaves the memo as it was.
C23_UnknownFunctionFailsFirst ==
    /\ []FramesAreRegistered
    /\ [][LookupFails =>
            /\ lastRet'.call.Name \notin DOMAIN Functions
            /\ lastRet'.out =
                  ErrOut(Error(lastRet'.call.Name, "", Errorf("unknown function")))
            /\ lastRet'.out.err.chain = <<[FuncName |-> lastRet'.call.Name, ArgName |-> ""]>>
            /\ KindOf(lastRet'.out.err) = "UNKNOWN_FUNCTION"
            /\ lastRet'.args = <<>>
            /\ tasks'[lastRet'.task].st = "err"
            /\ invoked' = invoked /\ Memo' = Memo /\ leaked' = leaked]_vars

\* a top-level call to get_news, whose argument is a nested call, has failed
\* at the lookup with nothing invoked and nothing memoized
C23_Witness ==
    /\ lastRet.stage = "lookup"
    /\ lastRet.depth = 0
    /\ lastRet.call.Name = "get_news"
    /\ "coordinates" \in DOMAIN lastRet.call.Args
    /\ lastRet.call.Args["coordinates"].t = "call"
    /\ lastRet.call.Args["coordinates"].Name = "get_coordinates"
    /\ invoked = <<>> /\ Memo = <<>>
    /\ tasks[lastRet.task].st = "err"

\* ------------------------------------------------------------------ materialized arguments
\* the arguments of an activation that are nested calls without a result
AbsentChildren(args) ==
    {k \in DOMAIN args : args[k].t = "func" /\ ~args[k].Func.Result.Present}
Without(args, keys) == [k \in DOMAIN args \ keys |-> args[k]]

\* the activation on top of task i is at its memo lookup, past the check of
\* the required arguments
AtLookup(i) ==
    /\ Active(i)
    /\ Top(i).pc = "args"
    /\ ArgsDone(Top(i))
    /\ checkRequiredArgs(Top(i).call, Top(i).args) = NoErr
FingerprintAt(i) ==
    generateFingerprint(Top(i).call.Name, createProcessedArgs(Top(i).args))

MaterializedAsStated ==
    \A i \in DOMAIN tasks :
        AtLookup(i) =>
            LET args == Top(i).args
                processedArgs == createProcessedArgs(args)
            IN /\ DOMAIN processedArgs = DOMAIN args \ AbsentChildren(args)
               /\ \A k \in DOMAIN processedArgs :
                     processedArgs[k] = IF args[k].t = "value" THEN args[k].Value
                                        ELSE args[k].Func.Result.Value
               /\ FingerprintAt(i) =
                     generateFingerprint(Top(i).call.Name,
                         createProcessedArgs(Without(args, AbsentChildren(args))))

\* C24: the materialized arguments hold the literal of each ValueArg and the
\* value of each nested call that has a result, and leave out the nested
\* calls without one, so a call has the fingerprint of the same call without
\* its absent nested arguments; a call that finds its fingerprint in the memo
\* returns the memoized result and no executor is invoked; the memo keeps
\* what it holds.
C24_AbsentChildrenAreOmitted ==
    /\ []MaterializedAsStated
    /\ [][/\ \A i \in DOMAIN tasks :
               (AtLookup(i) /\ FingerprintAt(i) \in DOMAIN Memo /\ tasks'[i] # tasks[i]) =>
                   /\ lastRet'.task = i /\ lastRet'.stage = "memo"
                   /\ lastRet'.out.t = "ok"
                   /\ lastRet'.out.call.Result = Memo[FingerprintAt(i)]
                   /\ lastRet'.out.call.Args = Top(i).args
                   /\ invoked' = invoked
          /\ \A fp \in DOMAIN Memo : fp \in DOMAIN Memo' /\ Memo'[fp] = Memo[fp]]_vars

\* sequential run: the forecast for the literal coordinates was computed by
\* the first call; the second call has, besides, a unit that get_coordinates
\* did not give, and it returned the memoized forecast: one invocation
C24_Witness ==
    /\ ~EnableConcurrentExec
    /\ Len(functions) = 2
    /\ DOMAIN functions[1].Args = {"coordinates"}
    /\ DOMAIN functions[2].Args = {"coordinates", "unit"}
    /\ lastRet.task = 2 /\ lastRet.depth = 0 /\ lastRet.stage = "memo"
    /\ AbsentChildren(lastRet.args) = {"unit"}
    /\ lastRet.out.call.Result = functionsExecution[1].Result
    /\ lastRet.out.call.Result.Present
    /\ Count(invoked, [Name |-> "get_weather_forecast",
                       Args |-> createProcessedArgs(lastRet.args)]) = 1

\* ------------------------------------------------------------------ order of the arguments
NestedArgs(call) == {k \in DOMAIN call.Args : call.Args[k].t = "call"}

\* a call without nested calls that fails before its executor is reached:
\* at the lookup, or at the check of the required arguments
FailsBeforeExecutor(call) ==
    /\ NestedArgs(call) = {}
    /\ \/ call.Name \notin DOMAIN Functions
       \/ checkRequiredArgs(call, LiteralArgs(call)) # NoErr

\* C25: the nested arguments of a call are executed in the same order on
\* every execution of the plan: when the plan is one call whose nested
\* arguments all fail before an executor is reached, and it has been executed
\* twice, both executions report the same error.
C25_SameErrorOnEveryRun ==
    (/\ execPc = "idle" /\ Len(rets) = 2
     /\ Len(functions) = 1
     /\ functions[1].Name \in DOMAIN Functions
     /\ \A k \in NestedArgs(functions[1]) : FailsBeforeExecutor(functions[1].Args[k]))
    => rets[1] = rets[2]

\* ------------------------------------------------------------------ after the cancellation
\* C26: once the group's context is cancelled no executor invocation is
\* started, and every call that returns from then on returns an error,
\* whatever its depth.
C26_CancellationStopsEverything ==
    [][groupCancelled =>
          /\ invoked' = invoked
          /\ (lastRet' # lastRet /\ lastRet'.stage # "none") => lastRet'.out.t = "err"]_vars

\* ------------------------------------------------------------------ executors in progress
\* the goroutines that are inside an executor: the one of the activation on
\* top of each task, and the ones of the calls that were given up
RECURSIVE Abandoned(_)
Abandoned(b) ==
    IF DOMAIN b = {} THEN 0
    ELSE LET e == CHOOSE x \in DOMAIN b : TRUE
         IN b[e] + Abandoned([x \in DOMAIN b \ {e} |-> b[x]])
Waited ==
    Cardinality({i \in DOMAIN tasks :
                    Active(i) /\ tasks[i].stack # <<>> /\ Top(i).pc = "select"
                    /\ Top(i).g = "running"})
InProgress == Waited + Abandoned(leaked)
BeingExecuted == Cardinality({i \in DOMAIN tasks : Active(i)})

\* C27: at any time there are no more executor invocations in progress than
\* top-level calls being executed, and under the sequential policy at most one.
C27_OneInvocationPerEntry ==
    /\ InProgress <= BeingExecuted
    /\ ~EnableConcurrentExec => InProgress <= 1

\* ------------------------------------------------------------------ tools that do not resolve
\* some call of the subtree names a function the ToolSet does not have
RECURSIVE Unresolved(_)
Unresolved(function) ==
    \/ FindTool(function.Name) = Nil
    \/ \E k \in DOMAIN function.Args :
          function.Args[k].t = "call" /\ Unresolved(function.Args[k])

ToolNotFound ==
    ProcessingError(<<"error evaluating function calls consistency", "tool not found">>)

\* C28: when the validator comes to a top-level call whose subtree names a
\* function that the ToolSet does not have, the request fails with the "tool
\* not found" error and no result: the LLM is not asked about this entry nor
\* about the entries after it, and Execute is not called.  The request fails
\* with that error in no other case.
C28_MissingToolFailsRequest ==
    /\ [][(hpc = "validate" /\ vi \in DOMAIN funcCalls /\ Unresolved(funcCalls[vi])) =>
             /\ hpc' = "done"
             /\ hret' = ToolNotFound
             /\ hret'.Execution = Nil
             /\ verdicts' = verdicts
             /\ <<runs, execPc, invoked, Memo>>' = <<runs, execPc, invoked, Memo>>]_vars
    /\ [](hret = ToolNotFound =>
             /\ hpc = "done"
             /\ runs = 0 /\ invoked = <<>> /\ Memo = <<>>
             /\ Len(verdicts) < Len(funcCalls)
             /\ Unresolved(funcCalls[Len(verdicts) + 1])
             /\ \A n \in 1..Len(verdicts) : ~Unresolved(funcCalls[n]))

\* the first of two entries has a nested call to get_news, which the ToolSet
\* does not have; the second entry resolves and was never validated
C28_Witness ==
    /\ hret = ToolNotFound
    /\ Len(funcCalls) = 2
    /\ FindTool(funcCalls[1].Name) # Nil
    /\ Unresolved(funcCalls[1])
    /\ ~Unresolved(funcCalls[2])
    /\ verdicts = <<>>
    /\ runs = 0

\* ------------------------------------------------------------------ the scoped ToolSet
\* the names of the calls of a subtree
RECURSIVE NamesIn(_)
NamesIn(function) ==
    {function.Name}
      \cup UNION {IF function.Args[k].t = "call" THEN NamesIn(function.Args[k]) ELSE {} :
                    k \in DOMAIN function.Args}

\* C29: the ToolSet built for an entry holds the functions whose names occur
\* in the entry's subtree, each of them once, and the type definitions of the
\* available tools.
C29_ScopedToolSetHasEachOnce ==
    (output # Nil /\ output.ok) =>
        /\ {output.v.Functions[n].Name : n \in DOMAIN output.v.Functions}
              = NamesIn(input.function)
        /\ \A m, n \in DOMAIN output.v.Functions :
              output.v.Functions[m].Name = output.v.Functions[n].Name => m = n
        /\ \A n \in DOMAIN output.v.Functions :
              output.v.Functions[n] = FindIn(input.at.Functions, output.v.Functions[n].Name)
        /\ output.v.TypeDefinitions = input.at.TypeDefinitions

\* ------------------------------------------------------------------ failures of the validation
\* the validator has obtained a reply for entry vi in this step
Evaluated == hpc = "validate" /\ vi \in DOMAIN funcCalls /\ Len(verdicts') = Len(verdicts) + 1
Reply == verdicts'[Len(verdicts')]

\* C30: when the call of the validation LLM fails, or its reply does not
\* decode as a verdict, the request fails with the validation error, without
\* a result and without calling Execute; otherwise the validator goes on to
\* the next entry, having dropped the entry if the decoded verdict has success
\* false (as it has when the reply leaves success out) and kept it if it has
\* success true.
C30_ValidationFailurePropagates ==
    /\ [][Evaluated =>
             IF Reply = LLMError \/ ~(VerdictTrue(Reply) \/ VerdictFalse(Reply))
             THEN /\ hpc' = "done"
                  /\ hret'.t = "err" /\ hret'.Execution = Nil
                  /\ hret'.err[1] = "error evaluating function calls consistency"
                  /\ hret'.err[2] = (IF Reply = LLMError
                                     THEN "error generating response for self-validation"
                                     ELSE "unmarshal")
                  /\ validated' = <<>>
                  /\ <<runs, execPc, invoked>>' = <<runs, execPc, invoked>>
             ELSE /\ hpc' = "validate" /\ vi' = vi + 1 /\ hret' = hret
                  /\ VerdictFalse(Reply) => validated' = validated
                  /\ VerdictTrue(Reply) => validated' = Append(validated, funcCalls[vi])]_vars
    /\ []((RequestFailed /\ hret.err[1] = "error evaluating function calls consistency") =>
              runs = 0 /\ invoked = <<>>)

\* the first entry was kept, the call of the LLM for the second failed: the
\* request failed and nothing was executed
C30_Witness ==
    /\ RequestFailed
    /\ Len(funcCalls) = 2
    /\ Len(verdicts) = 2
    /\ VerdictTrue(verdicts[1])
    /\ verdicts[2] = LLMError
    /\ hret.err = <<"error evaluating function calls consistency",
                    "error generating response for self-validation">>
    /\ runs = 0

\* ------------------------------------------------------------------ types referenced as arguments
\* C31: every type name that occurs as a type or as an item type anywhere in
\* the parameters of some function, the properties of the items of an array
\* included, is found by isUsedAsArgumentType, and when a function returns it
\* the generated schema holds its func_call_returning definition.
C31_ReferencedAnywhereCounts ==
    output # Nil =>
        \A X \in ArgumentTypes(input) :
            /\ isUsedAsArgumentType(input, X)
            /\ (output.ok /\ X \in ReturnTypes(input)) => Wrapper(X) \in DOMAIN SchemaDefs

\* ------------------------------------------------------------------ the rendered catalog
\* C32: two renderings of the catalog of one ToolSet are the same text.
C32_RenderingIsDeterministic ==
    output # Nil => output.first = output.second

SlotMatches(slots, i) ==
    /\ slots[i] # Nil
    /\ slots[i].Name = functions[i].Name
    /\ slots[i].Purpose = functions[i].Purpose

\* C34: a successful Execute returns one entry for each top-level call of
\* the plan, the i-th entry being the execution of the i-th call, under both
\* policies and whatever the order in which the calls completed.
C34_ResultFollowsPlanOrder ==
    /\ [](execPc = "running" =>
            /\ DOMAIN functionsExecution = DOMAIN functions
            /\ \A i \in DOMAIN tasks :
                  IF tasks[i].st = "ok" THEN SlotMatches(functionsExecution, i)
                  ELSE functionsExecution[i] = Nil)
    /\ [][(execPc = "running" /\ execPc' = "idle" /\ rets'[Len(rets')].t = "ok") =>
             /\ rets' = Append(rets, ResultOf(functionsExecution))
             /\ Len(rets'[Len(rets')].FuncCalls) = Len(functions)
             /\ \A i \in DOMAIN functions : SlotMatches(rets'[Len(rets')].FuncCalls, i)]_vars

\* concurrent policy, two different calls: the second completed first, the
\* first has just completed, and each is in its own slot
C34_Witness ==
    /\ EnableConcurrentExec
    /\ execPc = "running"
    /\ Len(functions) = 2
    /\ functions[1].Name # functions[2].Name
    /\ tasks[1].st = "ok" /\ tasks[2].st = "ok"
    /\ lastRet.task = 1 /\ lastRet.depth = 0
    /\ SlotMatches(functionsExecution, 1) /\ SlotMatches(functionsExecution, 2)

\* ------------------------------------------------------------------ what the memo holds
\* task i is at the select with the result of its executor on resultChan
ResultReady(i) ==
    /\ Active(i)
    /\ Top(i).pc = "select"
    /\ Top(i).g = "sent"
    /\ Top(i).chan.t = "result"

\* the executor of the call at the top of task i returns this result, no error
ReturnedByExecutor(i, result) ==
    LET outcome == Executor(Functions[Top(i).call.Name], Top(i).call.Name, Top(i).pargs)
    IN /\ Functions[Top(i).call.Name] # "hang"
       /\ outcome.t = "result"
       /\ outcome.result = result

\* C35: the memo changes only in the step in which a call receives the result
\* its executor returned, and then by that result under the fingerprint of
\* the call, the call returning it; a call that ends with the executor's
\* error, with a timeout or cancellation, or with a missing required argument
\* (formattable or not) stores nothing, and neither does an executor that
\* returns after its call was given up.
C35_MemoHoldsReceivedResults ==
    [][/\ Memo' # Memo =>
             \E i \in DOMAIN tasks :
                 /\ ResultReady(i)
                 /\ ReturnedByExecutor(i, Top(i).chan.result)
                 /\ Top(i).fp = generateFingerprint(Top(i).call.Name, Top(i).pargs)
                 /\ Memo' = (Top(i).fp :> Top(i).chan.result) @@ Memo
                 /\ lastRet'.task = i /\ lastRet'.stage = "result"
                 /\ lastRet'.out.t = "ok"
                 /\ lastRet'.out.call.Result = Top(i).chan.result
       /\ (lastRet' # lastRet /\ lastRet'.stage \in {"lookup", "required", "memo", "error", "timeout"})
             => Memo' = Memo
       /\ leaked' # leaked => Memo' = Memo]_vars

\* the memo has an entry; the last call ended by ctx.Done although its
\* executor gives a result, the goroutine is gone, and the memo has no entry
\* for that call
C35_Witness ==
    /\ Memo # <<>>
    /\ lastRet.stage = "timeout"
    /\ Functions[lastRet.call.Name] = "ok"
    /\ leaked = <<>>
    /\ generateFingerprint(lastRet.call.Name, createProcessedArgs(lastRet.args))
          \notin DOMAIN Memo

\* ------------------------------------------------------------------ a ready result and ctx.Done
\* C36: a call that decides its outcome while the result of its executor is
\* on resultChan returns that result and memoizes it, never a timeout.
C36_ReadyResultIsReturned ==
    [][\A i \in DOMAIN tasks :
          (ResultReady(i) /\ tasks'[i] # tasks[i]) =>
              /\ lastRet'.task = i
              /\ lastRet'.stage = "result"
              /\ lastRet'.out.t = "ok"
              /\ lastRet'.out.call.Result = Top(i).chan.result
              /\ Top(i).fp \in DOMAIN Memo'
              /\ Memo'[Top(i).fp] = Top(i).chan.result]_vars

\* ------------------------------------------------------------------ fingerprints and names
\* C37: a call that finds its fingerprint in the memo receives a result that
\* an executor registered under the call's own name returned, whatever the
\* materialized arguments are.
C37_MemoEntryIsOfTheSameFunction ==
    [][\A i \in DOMAIN tasks :
          (/\ AtLookup(i)
           /\ FingerprintAt(i) \in DOMAIN Memo
           /\ tasks'[i] # tasks[i]
           /\ Memo[FingerprintAt(i)].FormatFunc # Nil)
          => /\ lastRet'.stage = "memo"
             /\ lastRet'.out.call.Result.FormatFunc.by = Top(i).call.Name]_vars

\* ------------------------------------------------------------------ the memo across Execute calls
\* C38: the return of Execute, failed or not, leaves the memo as it is; no
\* step removes or changes an entry; and in an Execute that follows a failed
\* one a call whose fingerprint is in the memo returns the memoized result
\* without its executor being called.
C38_FailureKeepsTheMemo ==
    [][/\ (execPc = "running" /\ execPc' = "idle") => Memo' = Memo
       /\ \A fp \in DOMAIN Memo : fp \in DOMAIN Memo' /\ Memo'[fp] = Memo[fp]
       /\ \A i \in DOMAIN tasks :
             (/\ runs = 2 /\ rets[1].t = "err"
              /\ AtLookup(i) /\ FingerprintAt(i) \in DOMAIN Memo
              /\ tasks'[i] # tasks[i])
             => /\ lastRet'.task = i /\ lastRet'.stage = "memo"
                /\ lastRet'.out.t = "ok"
                /\ lastRet'.out.call.Result = Memo[FingerprintAt(i)]
                /\ invoked' = invoked]_vars

\* the first Execute failed; in the second no executor has been called yet
\* and a call has returned a result the first one memoized
C38_Witness ==
    /\ runs = 2
    /\ rets[1].t = "err"
    /\ execPc = "running"
    /\ invoked = <<>>
    /\ lastRet.stage = "memo"
    /\ lastRet.out.call.Result = Memo[FingerprintOf(lastRet.call, lastRet.args)]

\* ------------------------------------------------------------------ the goroutine of a call
\* C39: whenever the executor of a call returns, the goroutine that called
\* it can deliver the outcome and end, both while the call is waiting in the
\* select and after the call was ended by a timeout or a cancellation.
C39_SendNeverBlocks ==
    /\ \A e \in DOMAIN leaked : Functions[e.Name] # "hang" => ENABLED LeakedReturn(e)
    /\ \A i \in DOMAIN tasks :
          (/\ Active(i) /\ Top(i).pc = "select" /\ Top(i).g = "running"
           /\ Functions[Top(i).call.Name] # "hang")
          => ENABLED ExecutorReturn(i)

\* a call was ended by ctx.Done while its executor, one that returns, was
\* still running
C39_Witness ==
    /\ lastRet.stage = "timeout"
    /\ \E e \in DOMAIN leaked : e.Name = lastRet.call.Name /\ Functions[e.Name] = "ok"

\* ------------------------------------------------------------------ aliases of aliases
\* C40: getType returns for every dictionary of type definitions, also when
\* a type that is not an object is an alias of itself or of a type that is an
\* alias of it.
C40_GetTypeReturns == <>(output # Nil /\ output.frame.done)
====
